---- MODULE Spec2Model ----
(***************************************************************************)
(* A model of the field-extraction engine of arcra-inc/ocr_project:        *)
(*   - the flat-text parsers of test_ocr_for_doc1/lib/data_parser.py       *)
(*     (SequentialKeyParser, KeyValuePairParser, DataParser);              *)
(*   - the token normalizers of test_document_ai/lib/form_processor.py and *)
(*     smart_field_extractor.py;                                           *)
(*   - the candidate aggregation of SmartFieldExtractor;                   *)
(*   - the keyword-context strategy of FormFieldExtractor.                 *)
(*                                                                         *)
(* Text is a sequence of one-character strings.  Python offsets are        *)
(* 0-based; TLA+ sequences are 1-based, so the character at Python offset  *)
(* p of s is s[p + 1].  Confidences are integers in thousandths            *)
(* (1000 = 1.0).                                                           *)
(***************************************************************************)
EXTENDS Integers, Sequences, FiniteSets, TLC

VARIABLES
    regime,        \* which part of the program the run exercises
    call,          \* the operation that ran last ("none" before any)
    text,          \* flat regime: the OCR text handed to parse (or None)
    fields,        \* flat regime: the list of Field definitions
    result,        \* flat regime: the ParseResult of the call
    full_text,     \* layout regime: document.text
    page_tokens,   \* layout regime: the raw tokens of pages[0]
    config,        \* layout regime: the field definitions of the extractor
    tokens,        \* layout regime: the normalized tokens of the call
    extracted,     \* layout regime: the fields the call extracted
    found_values,  \* aggregation: the candidates collected for a field
    unique_values, \* aggregation: the candidates left by the call
    aggregated,    \* aggregation: the field result of the call
    raised,        \* the exception that left the call ("none": it returned)
    instance,      \* the attributes of the extractor the calls share
    history,       \* the calls the shared instance has served, in order
    threads,       \* the calls in progress on the shared instance
    batch          \* the batch loop of main: its position and counters

flatVars == <<text, fields, result>>
layoutVars == <<full_text, page_tokens, config, tokens, extracted>>
candVars == <<found_values, unique_values, aggregated>>
runVars == <<raised, instance, history, threads, batch>>
vars == <<regime, call, flatVars, layoutVars, candVars, runVars>>

-----------------------------------------------------------------------------
(* Bounds of the model.                                                    *)

MaxTextLen == 3

-----------------------------------------------------------------------------
(* Python string primitives.                                               *)

\* Characters Python's str.strip() and the regular expression \s treat as
\* white space.
WS == {" ", "\n"}

\* The characters of the model.  "K", "M", "T", "E" and "L" are the
\* upper-case forms of "k", "m", "t", "e" and "l"; ";" stands for the
\* full-width colon (U+FF1A) and "minus" for the minus sign (U+2212); "1"
\* and "2" are digits; "rei", "wa", "nen", "gatsu" and "hi" stand for the
\* kanji of the era name Reiwa and of year, month and day, "shi" for the
\* kanji of the honorific and "mei" for the kanji of name; "ka" and "na"
\* stand for two katakana.
Alphabet ==
    {"k", "m", "K", "M", "v", ":", ";", " ", "\n", "1", "2", "-", "@", ".",
     "T", "E", "L", "t", "e", "l", "(", ")", "minus",
     "rei", "wa", "nen", "gatsu", "hi", "shi", "mei", "ka", "na"}

\* re.IGNORECASE compares characters by their case-folded form.
Fold(c) ==
    CASE c = "K" -> "k" [] c = "M" -> "m"
      [] c = "T" -> "t" [] c = "E" -> "e" [] c = "L" -> "l"
      [] OTHER -> c

SeqsUpTo(S, n) == UNION {[1..k -> S] : k \in 0..n}

\* s[a:b] for 0 <= a, b (Python clamps both to len(s); empty when a >= b).
Slice(s, a, b) ==
    LET hi == IF b > Len(s) THEN Len(s) ELSE b
    IN  IF a >= hi THEN <<>> ELSE SubSeq(s, a + 1, hi)

RECURSIVE LStrip(_)
LStrip(s) == IF s # <<>> /\ Head(s) \in WS THEN LStrip(Tail(s)) ELSE s

RECURSIVE RStrip(_)
RStrip(s) ==
    IF s # <<>> /\ s[Len(s)] \in WS THEN RStrip(SubSeq(s, 1, Len(s) - 1)) ELSE s

\* str.strip()
Strip(s) == RStrip(LStrip(s))

\* text.split('\n'): always at least one (possibly empty) line.
RECURSIVE SplitLines(_)
SplitLines(s) ==
    IF \E i \in 1..Len(s) : s[i] = "\n"
    THEN LET i == CHOOSE i \in 1..Len(s) : s[i] = "\n" /\ \A j \in 1..(i - 1) : s[j] # "\n"
         IN  <<SubSeq(s, 1, i - 1)>> \o SplitLines(SubSeq(s, i + 1, Len(s)))
    ELSE <<s>>

\* ' '.join(parts)
RECURSIVE JoinSpace(_)
JoinSpace(parts) ==
    IF parts = <<>> THEN <<>>
    ELSE IF Len(parts) = 1 THEN parts[1]
    ELSE parts[1] \o <<" ">> \o JoinSpace(Tail(parts))

-----------------------------------------------------------------------------
(* Regular expressions.  A pattern is a sequence of atoms; an atom is a    *)
(* character class with a greedy repetition {lo,hi} (hi = -1: unbounded).  *)
(* Matching is Python's: leftmost start, greedy with backtracking.         *)

One(cls) == [cls |-> cls, lo |-> 1, hi |-> 1]
Star(cls) == [cls |-> cls, lo |-> 0, hi |-> -1]
Plus(cls) == [cls |-> cls, lo |-> 1, hi |-> -1]
Rep(cls, lo, hi) == [cls |-> cls, lo |-> lo, hi |-> hi]
Not(cls) == Alphabet \ cls

CharMatch(c, cls, icase) ==
    IF icase THEN Fold(c) \in {Fold(d) : d \in cls} ELSE c \in cls

\* The number of consecutive characters of class cls from offset p.
RECURSIVE RunLen(_, _, _, _)
RunLen(s, p, cls, icase) ==
    IF p < Len(s) /\ CharMatch(s[p + 1], cls, icase)
    THEN 1 + RunLen(s, p + 1, cls, icase)
    ELSE 0

NoMatch == [ok |-> FALSE, start |-> 0, ends |-> <<>>]

CapAt(hi, run) == IF hi >= 0 /\ hi < run THEN hi ELSE run

\* The longest repetition of atom a at offset p.
TopCount(a, s, p, icase) == CapAt(a.hi, RunLen(s, p, a.cls, icase))

\* Match atom k of the pattern at offset p with c repetitions or fewer, then
\* the atoms after it (MatchRest); ends lists the end offset of every atom
\* matched.  MatchStep takes the outcome r of the atoms after k and
\* backtracks to c - 1 repetitions when they did not match.
RECURSIVE MatchTry(_, _, _, _, _, _)
RECURSIVE MatchRest(_, _, _, _, _)
RECURSIVE MatchStep(_, _, _, _, _, _, _)
MatchTry(atoms, k, s, p, icase, c) ==
    IF c < atoms[k].lo THEN NoMatch
    ELSE MatchStep(atoms, k, s, p, icase, c, MatchRest(atoms, k + 1, s, p + c, icase))
MatchRest(atoms, k, s, q, icase) ==
    IF k > Len(atoms) THEN [ok |-> TRUE, start |-> q, ends |-> <<>>]
    ELSE MatchTry(atoms, k, s, q, icase, TopCount(atoms[k], s, q, icase))
MatchStep(atoms, k, s, p, icase, c, r) ==
    IF r.ok THEN [ok |-> TRUE, start |-> p, ends |-> <<p + c>> \o r.ends]
    ELSE MatchTry(atoms, k, s, p, icase, c - 1)

\* re.match at offset p.
MatchFrom(atoms, s, p, icase) == MatchRest(atoms, 1, s, p, icase)

\* re.search(pattern, s[pos:]): the leftmost match starting at or after pos
\* (SearchStep takes the outcome r of the match at pos).
RECURSIVE SearchFrom(_, _, _, _)
RECURSIVE SearchStep(_, _, _, _, _)
SearchFrom(atoms, s, pos, icase) ==
    IF pos > Len(s) THEN NoMatch
    ELSE SearchStep(atoms, s, pos, icase, MatchFrom(atoms, s, pos, icase))
SearchStep(atoms, s, pos, icase, r) ==
    IF r.ok THEN r ELSE SearchFrom(atoms, s, pos + 1, icase)

ReSearch(atoms, s, icase) == SearchFrom(atoms, s, 0, icase)

\* match.end()
MatchEnd(m) == IF m.ends = <<>> THEN m.start ELSE m.ends[Len(m.ends)]

\* Where finditer resumes after the match m.
NextPos(m) == IF MatchEnd(m) = m.start THEN m.start + 1 ELSE MatchEnd(m)

\* re.finditer: the non-overlapping matches, left to right (FindIterStep
\* takes the next match m).
RECURSIVE FindIterFrom(_, _, _, _)
RECURSIVE FindIterStep(_, _, _, _)
FindIterFrom(atoms, s, pos, icase) ==
    FindIterStep(atoms, s, icase, SearchFrom(atoms, s, pos, icase))
FindIterStep(atoms, s, icase, m) ==
    IF ~m.ok THEN <<>> ELSE <<m>> \o FindIterFrom(atoms, s, NextPos(m), icase)

FindIter(atoms, s, icase) == FindIterFrom(atoms, s, 0, icase)

-----------------------------------------------------------------------------
(* Flat-text regime: data_parser.py.                                       *)

\* The text argument when it is absent (Python's None).
None == <<"None">>

\* dataclass Field
Field(key, patterns, required, multiline) ==
    [key |-> key, patterns |-> patterns, required |-> required, multiline |-> multiline]

\* Key patterns of the shape r"氏名[：:\s]*" (a literal key, then any colons
\* and white space).  PatM is written with an upper-case key, as r"TEL[：:\s]*".
KeySeparators == {":", ";"} \cup WS
PatK == <<One({"k"}), Star(KeySeparators)>>
PatM == <<One({"M"}), Star(KeySeparators)>>

\* r'([^:\n]+)[：:]\s*([^\n]+)'
KVPattern == <<Plus(Not({":", "\n"})), One({";", ":"}), Star(WS), Plus(Not({"\n"}))>>

\* SequentialKeyParser.__init__(max_value_lines = 10)
DefaultMaxValueLines == 10

EmptyData == [k \in {} |-> <<>>]

\* dataclass ParseResult; evals counts the re.search calls made with a
\* pattern of a field.
ParseResult(data, missing_fields, warnings, evals) ==
    [data |-> data, missing_fields |-> missing_fields, warnings |-> warnings,
     evals |-> evals]

NoResult == ParseResult(EmptyData, <<>>, <<>>, 0)

\* [f.key for f in fields if f.required]
RECURSIVE RequiredKeys(_)
RequiredKeys(fs) ==
    IF fs = <<>> THEN <<>>
    ELSE (IF Head(fs).required THEN <<Head(fs).key>> ELSE <<>>) \o RequiredKeys(Tail(fs))

\* The result every parse returns for an empty or absent text.
EmptyInputResult(fs) == ParseResult(EmptyData, RequiredKeys(fs), <<<<"empty_input">>>>, 0)

\* [f.key for f in fields if f.required and f.key not in data]
RECURSIVE MissingFieldsAll(_, _)
MissingFieldsAll(fs, data) ==
    IF fs = <<>> THEN <<>>
    ELSE (IF Head(fs).key \notin DOMAIN data THEN <<Head(fs).key>> ELSE <<>>)
         \o MissingFieldsAll(Tail(fs), data)

RECURSIVE MissingFields(_, _)
MissingFields(fs, data) ==
    IF fs = <<>> THEN <<>>
    ELSE (IF Head(fs).required /\ Head(fs).key \notin DOMAIN data
          THEN <<Head(fs).key>> ELSE <<>>)
         \o MissingFields(Tail(fs), data)

\* The patterns of all fields, in the order _is_field_key tries them.
RECURSIVE FlatPatterns(_)
FlatPatterns(fs) ==
    IF fs = <<>> THEN <<>> ELSE Head(fs).patterns \o FlatPatterns(Tail(fs))

\* The index of the first pattern of pats, from i on, that re.search finds
\* in s (0: none).
RECURSIVE FirstMatchingFrom(_, _, _)
FirstMatchingFrom(pats, s, i) ==
    IF i > Len(pats) THEN 0
    ELSE IF ReSearch(pats[i], s, TRUE).ok THEN i
    ELSE FirstMatchingFrom(pats, s, i + 1)

FirstMatching(pats, s) == FirstMatchingFrom(pats, s, 1)

\* Whether the i-th of n patterns matched (i = 0: none did), and the number
\* of re.search calls made.
KeyHit(i, n) == [hit |-> i # 0, evals |-> IF i # 0 THEN i ELSE n]

IsFieldKeyIn(pats, line) == KeyHit(FirstMatching(pats, line), Len(pats))

\* SequentialKeyParser._is_field_key
IsFieldKey(line, fs) == IsFieldKeyIn(FlatPatterns(fs), line)

Min(a, b) == IF a < b THEN a ELSE b
Max(a, b) == IF a > b THEN a ELSE b

\* The loop "for j in range(i + 1, min(i + max_value_lines + 1, len(lines)))"
\* from j on; acc is value_lines.  CollectStep takes next_line, CollectKey
\* the outcome k of _is_field_key(next_line).
RECURSIVE CollectLines(_, _, _, _, _, _)
RECURSIVE CollectStep(_, _, _, _, _, _, _)
RECURSIVE CollectKey(_, _, _, _, _, _, _, _)
CollectLines(lines, all_fields, j, stop, acc, evals) ==
    IF j >= stop THEN [lines |-> acc, evals |-> evals]
    ELSE CollectStep(lines, all_fields, j, stop, acc, evals, Strip(lines[j + 1]))
CollectStep(lines, all_fields, j, stop, acc, evals, next_line) ==
    IF next_line = <<>> THEN [lines |-> acc, evals |-> evals]
    ELSE CollectKey(lines, all_fields, j, stop, acc, evals, next_line,
                    IsFieldKey(next_line, all_fields))
CollectKey(lines, all_fields, j, stop, acc, evals, next_line, k) ==
    IF k.hit THEN [lines |-> acc, evals |-> evals + k.evals]
    ELSE CollectLines(lines, all_fields, j + 1, stop, Append(acc, next_line),
                      evals + k.evals)

\* value_lines = [remaining] if remaining else []
InitialValueLines(remaining) == IF remaining # <<>> THEN <<remaining>> ELSE <<>>

\* SequentialKeyParser._extract_field_value, from pattern p (1-based) and
\* line i (0-based) on; found = FALSE is the return of (None, None).
\* ScanLine takes the match m of pattern p in line i, ScanMatch the text
\* remaining after the match, ScanCollected the collected value lines c,
\* ScanValue the joined value.
RECURSIVE ExtractScan(_, _, _, _, _, _, _)
RECURSIVE ScanLine(_, _, _, _, _, _, _, _)
RECURSIVE ScanMatch(_, _, _, _, _, _, _, _)
RECURSIVE ScanCollected(_, _, _, _, _, _, _)
RECURSIVE ScanValue(_, _, _, _, _, _, _, _)
ExtractScan(lines, field, all_fields, max_value_lines, p, i, evals) ==
    IF p > Len(field.patterns) THEN [found |-> FALSE, value |-> <<>>, evals |-> evals]
    ELSE IF i >= Len(lines)
    THEN ExtractScan(lines, field, all_fields, max_value_lines, p + 1, 0, evals)
    ELSE ScanLine(lines, field, all_fields, max_value_lines, p, i, evals,
                  ReSearch(field.patterns[p], lines[i + 1], TRUE))
ScanLine(lines, field, all_fields, max_value_lines, p, i, evals, m) ==
    IF ~m.ok
    THEN ExtractScan(lines, field, all_fields, max_value_lines, p, i + 1, evals + 1)
    ELSE ScanMatch(lines, field, all_fields, max_value_lines, p, i, evals,
                   Strip(Slice(lines[i + 1], MatchEnd(m), Len(lines[i + 1]))))
ScanMatch(lines, field, all_fields, max_value_lines, p, i, evals, remaining) ==
    IF field.multiline \/ remaining = <<>>
    THEN ScanCollected(lines, field, all_fields, max_value_lines, p, i,
                       CollectLines(lines, all_fields, i + 1,
                                    Min(i + max_value_lines + 1, Len(lines)),
                                    InitialValueLines(remaining), evals + 1))
    ELSE [found |-> TRUE, value |-> remaining, evals |-> evals + 1]
ScanCollected(lines, field, all_fields, max_value_lines, p, i, c) ==
    ScanValue(lines, field, all_fields, max_value_lines, p, i, c.evals,
              Strip(JoinSpace(c.lines)))
ScanValue(lines, field, all_fields, max_value_lines, p, i, evals, value) ==
    IF value # <<>> THEN [found |-> TRUE, value |-> value, evals |-> evals]
    ELSE ExtractScan(lines, field, all_fields, max_value_lines, p, i + 1, evals)

\* _extract_field_value trying the patterns of the field last to first.
ExtractFieldValueLastPatternFirst(lines, field, all_fields, max_value_lines) ==
    ExtractScan(lines,
                [field EXCEPT !.patterns = [p \in 1..Len(field.patterns) |->
                                               field.patterns[Len(field.patterns) + 1 - p]]],
                all_fields, max_value_lines, 1, 0, 0)

ExtractFieldValue(lines, field, all_fields, max_value_lines) ==
    ExtractScan(lines, field, all_fields, max_value_lines, 1, 0, 0)

\* warnings.append(...) for a required field without a value
WarnIfRequired(warnings, field) ==
    IF field.required THEN Append(warnings, <<"required_not_found", field.key>>)
    ELSE warnings

\* The loop "for field in fields" of SequentialKeyParser.parse, from field n
\* on (SeqFieldStep takes the outcome r of _extract_field_value).
RECURSIVE SeqFieldLoop(_, _, _, _, _, _, _)
RECURSIVE SeqFieldStep(_, _, _, _, _, _, _, _)
SeqFieldLoop(lines, fs, max_value_lines, n, data, warnings, evals) ==
    IF n > Len(fs) THEN [data |-> data, warnings |-> warnings, evals |-> evals]
    ELSE SeqFieldStep(lines, fs, max_value_lines, n, data, warnings, evals,
                      ExtractFieldValue(lines, fs[n], fs, max_value_lines))
SeqFieldStep(lines, fs, max_value_lines, n, data, warnings, evals, r) ==
    IF r.found
    THEN SeqFieldLoop(lines, fs, max_value_lines, n + 1,
                      (fs[n].key :> r.value) @@ data, warnings, evals + r.evals)
    ELSE SeqFieldLoop(lines, fs, max_value_lines, n + 1, data,
                      WarnIfRequired(warnings, fs[n]), evals + r.evals)

FalsyNoneOnly(t) == t = None

\* "if not text"
Falsy(t) == t = None \/ t = <<>>

\* The ParseResult SequentialKeyParser.parse builds from the loop's outcome r.
SeqResult(fs, r) == ParseResult(r.data, MissingFields(fs, r.data), r.warnings, r.evals)

\* SequentialKeyParser.parse
SeqParse(t, fs, max_value_lines) ==
    IF Falsy(t) THEN EmptyInputResult(fs)
    ELSE SeqResult(fs, SeqFieldLoop(SplitLines(t), fs, max_value_lines, 1,
                                    EmptyData, <<>>, 0))

\* One (key_text, value) pair of re.findall, stripped as at the head of the
\* loop body, from the match m.
KVPair(t, m) ==
    [key_text |-> Strip(Slice(t, m.start, m.ends[1])),
     value |-> Strip(Slice(t, m.ends[3], m.ends[4]))]

KVPairsOf(t, ms) == [i \in 1..Len(ms) |-> KVPair(t, ms[i])]

\* re.findall(r'([^:\n]+)[：:]\s*([^\n]+)', text)
KVMatches(t) == KVPairsOf(t, FindIter(KVPattern, t, FALSE))

\* The loop "for field in fields" of KeyValuePairParser.parse for one pair
\* (KVFieldStep takes the index i of the first pattern of field n found in
\* key_text, 0 if none).
RECURSIVE KVFieldLoop(_, _, _, _, _)
RECURSIVE KVFieldStep(_, _, _, _, _, _)
\* The step of a loop that keeps the value a field already has.
KVFieldStepKeepFirst(pair, fs, n, data, evals, i) ==
    IF i # 0
    THEN KVFieldLoop(pair, fs, n + 1, data @@ (fs[n].key :> pair.value), evals + i)
    ELSE KVFieldLoop(pair, fs, n + 1, data, evals + Len(fs[n].patterns))

KVFieldLoop(pair, fs, n, data, evals) ==
    IF n > Len(fs) THEN [data |-> data, evals |-> evals]
    ELSE KVFieldStep(pair, fs, n, data, evals, FirstMatching(fs[n].patterns, pair.key_text))
KVFieldStep(pair, fs, n, data, evals, i) ==
    IF i # 0
    THEN KVFieldLoop(pair, fs, n + 1, (fs[n].key :> pair.value) @@ data, evals + i)
    ELSE KVFieldLoop(pair, fs, n + 1, data, evals + Len(fs[n].patterns))

\* The loop "for key_text, value in matches".
RECURSIVE KVPairLoop(_, _, _, _)
KVPairLoop(pairs, fs, n, acc) ==
    IF n > Len(pairs) THEN acc
    ELSE KVPairLoop(pairs, fs, n + 1, KVFieldLoop(pairs[n], fs, 1, acc.data, acc.evals))

\* warnings.append(...) when a required field is missing
KVWarnings(missing) ==
    IF missing # <<>> THEN <<<<"required_missing", missing>>>> ELSE <<>>

KVResultOf(data, missing, evals) == ParseResult(data, missing, KVWarnings(missing), evals)

\* The ParseResult KeyValuePairParser.parse builds from the loop's outcome r.
KVResult(fs, r) == KVResultOf(r.data, MissingFields(fs, r.data), r.evals)

\* KeyValuePairParser.parse
KVParse(t, fs) ==
    IF Falsy(t) THEN EmptyInputResult(fs)
    ELSE KVResult(fs, KVPairLoop(KVMatches(t), fs, 1, [data |-> EmptyData, evals |-> 0]))

Strategies == {"SequentialKeyParser", "KeyValuePairParser"}

\* DataParser.parse, for a DataParser built with the strategy and the fields.
DataParse(strategy, t, fs) ==
    IF Falsy(t) THEN EmptyInputResult(fs)
    ELSE IF strategy = "SequentialKeyParser" THEN SeqParse(t, fs, DefaultMaxValueLines)
    ELSE KVParse(t, fs)

\* The inputs of the flat regime.
FlatChars == {"k", "m", ":", " ", "v", "\n"}

RECURSIVE JoinNL(_)
JoinNL(ls) ==
    IF Len(ls) = 1 THEN ls[1] ELSE ls[1] \o <<"\n">> \o JoinNL(Tail(ls))

LinePool ==
    { <<>>, <<"v">>, <<"k">>, <<"k", ":", "v">>, <<"k", ":", " ">>,
      <<"m", ":", "v">>, <<"k", ":", "m">>, <<" ", "v", " ">> }

MaxLines == 3

FlatTexts ==
    {None} \cup SeqsUpTo(FlatChars, MaxTextLen)
           \cup {JoinNL(ls) : ls \in SeqsUpTo(LinePool, MaxLines) \ {<<>>}}

FlatFieldLists ==
    {<<>>}
    \cup {<<Field("name", ps, r, ml)>> : ps \in {<<PatK>>, <<>>, <<PatM, PatK>>},
                                         r \in BOOLEAN, ml \in BOOLEAN}
    \cup {<<Field("name", <<PatK>>, TRUE, ml), Field("title", <<PatM>>, r, FALSE)>> :
             r \in BOOLEAN, ml \in BOOLEAN}
    \cup {<<Field("name", <<>>, TRUE, FALSE), Field("name", <<PatM>>, r, FALSE)>> :
             r \in BOOLEAN}

FlatIdle == text = <<>> /\ fields = <<>> /\ result = NoResult

FlatInputs ==
    /\ text \in FlatTexts
    /\ fields \in FlatFieldLists
    /\ result = NoResult

SequentialKeyParser_parse ==
    /\ regime = "flat" /\ call = "none"
    /\ call' = "SequentialKeyParser.parse"
    /\ result' = SeqParse(text, fields, DefaultMaxValueLines)
    /\ UNCHANGED <<regime, text, fields, layoutVars, candVars, runVars>>

KeyValuePairParser_parse ==
    /\ regime = "flat" /\ call = "none"
    /\ call' = "KeyValuePairParser.parse"
    /\ result' = KVParse(text, fields)
    /\ UNCHANGED <<regime, text, fields, layoutVars, candVars, runVars>>

DataParser_parse ==
    /\ regime = "flat" /\ call = "none"
    /\ \E strategy \in Strategies :
          /\ call' = "DataParser.parse"
          /\ result' = DataParse(strategy, text, fields)
    /\ UNCHANGED <<regime, text, fields, layoutVars, candVars, runVars>>

NextFlat ==
    \/ SequentialKeyParser_parse
    \/ KeyValuePairParser_parse
    \/ DataParser_parse

-----------------------------------------------------------------------------
(* Layout-rich regime: the token normalizers of form_processor.py and      *)
(* smart_field_extractor.py.                                               *)

EmptyDict == [k \in {} |-> 0]

\* dict.get(key, default)
Get(d, k, default) == IF k \in DOMAIN d THEN d[k] ELSE default

\* s[a:b] for any integers a and b: a negative index counts from the end,
\* and both ends are clamped to [0, len(s)].
PySlice(s, a, b) ==
    LET n == Len(s)
        lo == IF a < 0 THEN Max(a + n, 0) ELSE Min(a, n)
        hi == IF b < 0 THEN Max(b + n, 0) ELSE Min(b, n)
    IN  IF lo >= hi THEN <<>> ELSE SubSeq(s, lo + 1, hi)

\* A raw token of page["tokens"] is a dict; the model flattens
\* token["layout"]["textAnchor"]["textSegments"], token["layout"]["confidence"]
\* and token["layout"]["boundingPoly"]["normalizedVertices"] into the keys
\* "textSegments", "confidence" and "normalizedVertices".  A segment is a
\* dict with the optional keys "startIndex" and "endIndex"; a vertex is a
\* dict with the optional keys "x" and "y" (thousandths of the page).

RECURSIVE SumSeq(_)
SumSeq(q) == IF q = <<>> THEN 0 ELSE Head(q) + SumSeq(Tail(q))

SeqMin(q) == CHOOSE m \in {q[i] : i \in 1..Len(q)} : \A i \in 1..Len(q) : m <= q[i]
SeqMax(q) == CHOOSE m \in {q[i] : i \in 1..Len(q)} : \A i \in 1..Len(q) : m >= q[i]

\* [v.get(c, 0.0) for v in normalized_vertices if c in v]
RECURSIVE CoordsOf(_, _)
CoordsOf(vs, c) ==
    IF vs = <<>> THEN <<>>
    ELSE (IF c \in DOMAIN Head(vs) THEN <<Head(vs)[c]>> ELSE <<>>) \o CoordsOf(Tail(vs), c)

\* _get_normalized_coordinates of both extractors (the mean is floored to a
\* thousandth; FormFieldExtractor also keeps the vertices).
GetNormalizedCoordinates(normalized_vertices, keep_vertices) ==
    LET x_coords == CoordsOf(normalized_vertices, "x")
        y_coords == CoordsOf(normalized_vertices, "y")
        box == [x_min |-> SeqMin(x_coords), y_min |-> SeqMin(y_coords),
                x_max |-> SeqMax(x_coords), y_max |-> SeqMax(y_coords),
                center_x |-> SumSeq(x_coords) \div Len(x_coords),
                center_y |-> SumSeq(y_coords) \div Len(y_coords)]
    IN  IF normalized_vertices = <<>> \/ x_coords = <<>> \/ y_coords = <<>> THEN EmptyDict
        ELSE IF keep_vertices THEN box @@ [vertices |-> normalized_vertices]
        ELSE box

\* The start and end index _extract_tokens and _extract_token_info read from
\* segments[0].
SegStart(segment) == Get(segment, "startIndex", 0)
SegEnd(segment) == Get(segment, "endIndex", SegStart(segment))

\* FormFieldExtractor._extract_tokens, from raw token idx (0-based) on.
\* detected_break and detected_languages are copied through and left out.
RECURSIVE ExtractTokensFrom(_, _, _)
ExtractTokensFrom(page, ft, idx) ==
    IF idx >= Len(page) THEN <<>>
    ELSE LET token == page[idx + 1]
             segments == Get(token, "textSegments", <<>>)
             start_idx == SegStart(segments[1])
             end_idx == SegEnd(segments[1])
         IN  (IF segments # <<>>
              THEN <<[token_id |-> idx,
                      text |-> PySlice(ft, start_idx, end_idx),
                      confidence |-> Get(token, "confidence", 0),
                      coordinates |-> GetNormalizedCoordinates(
                                          Get(token, "normalizedVertices", <<>>), TRUE),
                      text_indices |-> [start |-> start_idx, end |-> end_idx]]>>
              ELSE <<>>)
             \o ExtractTokensFrom(page, ft, idx + 1)

ExtractTokens(page, ft) == ExtractTokensFrom(page, ft, 0)

\* SmartFieldExtractor._extract_token_info, from raw token idx (0-based) on.
RECURSIVE ExtractTokenInfoFrom(_, _, _)
ExtractTokenInfoFrom(page, ft, idx) ==
    IF idx >= Len(page) THEN <<>>
    ELSE LET token == page[idx + 1]
             segments == Get(token, "textSegments", <<>>)
             start_idx == SegStart(segments[1])
             end_idx == SegEnd(segments[1])
         IN  (IF segments # <<>>
              THEN <<[index |-> idx,
                      text |-> PySlice(ft, start_idx, end_idx),
                      confidence |-> Get(token, "confidence", 0),
                      start_pos |-> start_idx,
                      end_pos |-> end_idx,
                      coordinates |-> GetNormalizedCoordinates(
                                          Get(token, "normalizedVertices", <<>>), FALSE)]>>
              ELSE <<>>)
             \o ExtractTokenInfoFrom(page, ft, idx + 1)

ExtractTokenInfo(page, ft) == ExtractTokenInfoFrom(page, ft, 0)

\* The inputs of the normalizer.
MaxDocLen == 2
MaxRawTokens == 2

DocChars == {"k", "v"}

IndexValues == (-1)..(MaxDocLen + 1)

\* The dicts with keys among ks and values in vals.
Dicts(ks, vals) == UNION {[d -> vals] : d \in SUBSET ks}

Segments == Dicts({"startIndex", "endIndex"}, IndexValues)

UnitSquare ==
    <<[x |-> 100, y |-> 100], [x |-> 300, y |-> 100],
      [x |-> 300, y |-> 200], [x |-> 100, y |-> 200]>>

NormRawTokens ==
    {EmptyDict, [textSegments |-> <<>>, confidence |-> 900]}
    \cup {[textSegments |-> <<seg>>, confidence |-> 900, normalizedVertices |-> UnitSquare] :
             seg \in Segments}
    \cup {[textSegments |-> <<seg, [startIndex |-> 0, endIndex |-> 1]>>] :
             seg \in {EmptyDict, [startIndex |-> 1, endIndex |-> MaxDocLen]}}

NoExtracted == EmptyDict

LayoutIdle ==
    /\ full_text = <<>> /\ page_tokens = <<>> /\ config = EmptyDict
    /\ tokens = <<>> /\ extracted = NoExtracted

CandIdle == found_values = <<>> /\ unique_values = <<>> /\ aggregated = EmptyDict

RunIdle ==
    /\ raised = "none" /\ instance = EmptyDict /\ history = <<>>
    /\ threads = <<>> /\ batch = EmptyDict

NormInputs ==
    /\ full_text \in SeqsUpTo(DocChars, MaxDocLen)
    /\ page_tokens \in SeqsUpTo(NormRawTokens, MaxRawTokens)
    /\ config = EmptyDict
    /\ tokens = <<>>
    /\ extracted = NoExtracted

FormFieldExtractor_extract_tokens ==
    /\ regime = "layout" /\ call = "none"
    /\ call' = "FormFieldExtractor._extract_tokens"
    /\ tokens' = ExtractTokens(page_tokens, full_text)
    /\ UNCHANGED <<regime, full_text, page_tokens, config, extracted, flatVars, candVars, runVars>>

SmartFieldExtractor_extract_token_info ==
    /\ regime = "layout" /\ call = "none"
    /\ call' = "SmartFieldExtractor._extract_token_info"
    /\ tokens' = ExtractTokenInfo(page_tokens, full_text)
    /\ UNCHANGED <<regime, full_text, page_tokens, config, extracted, flatVars, candVars, runVars>>

NextNorm ==
    \/ FormFieldExtractor_extract_tokens
    \/ SmartFieldExtractor_extract_token_info

-----------------------------------------------------------------------------
(* Candidate aggregation: SmartFieldExtractor._deduplicate_values and the  *)
(* tail of _extract_field_by_patterns.  A candidate is a record with the   *)
(* keys value (the dict's "値") and confidence ("信頼度", in thousandths); *)
(* origin stands for the candidate's other keys (method, coordinates,      *)
(* pattern or clue), which tell two candidates of one value apart.         *)

\* Keeps the last candidate of every value text, at the place of the first.
RECURSIVE DedupKeepLastFrom(_, _, _)
DedupKeepLastFrom(values, n, seen) ==
    IF n > Len(values) THEN <<>>
    ELSE IF values[n].value \in seen THEN DedupKeepLastFrom(values, n + 1, seen)
    ELSE <<values[CHOOSE m \in n..Len(values) :
                     /\ values[m].value = values[n].value
                     /\ \A k \in (m + 1)..Len(values) : values[k].value # values[n].value]>>
         \o DedupKeepLastFrom(values, n + 1, seen \cup {values[n].value})

DeduplicateKeepLast(values) == DedupKeepLastFrom(values, 1, {})

\* Keeps the most confident candidate of every value text, at the place of
\* the first.
RECURSIVE DedupKeepBestFrom(_, _, _)
DedupKeepBestFrom(values, n, seen) ==
    IF n > Len(values) THEN <<>>
    ELSE IF values[n].value \in seen THEN DedupKeepBestFrom(values, n + 1, seen)
    ELSE <<values[CHOOSE m \in n..Len(values) :
                     /\ values[m].value = values[n].value
                     /\ \A k \in n..Len(values) :
                            values[k].value = values[n].value =>
                                \/ values[k].confidence < values[m].confidence
                                \/ (values[k].confidence = values[m].confidence /\ k >= m)]>>
         \o DedupKeepBestFrom(values, n + 1, seen \cup {values[n].value})

DeduplicateKeepBest(values) == DedupKeepBestFrom(values, 1, {})

\* The loop of _deduplicate_values from candidate n on; seen is seen_values.
RECURSIVE DedupFrom(_, _, _)
DedupFrom(values, n, seen) ==
    IF n > Len(values) THEN <<>>
    ELSE IF values[n].value \in seen THEN DedupFrom(values, n + 1, seen)
    ELSE <<values[n]>> \o DedupFrom(values, n + 1, seen \cup {values[n].value})

\* SmartFieldExtractor._deduplicate_values
DeduplicateValues(values) == DedupFrom(values, 1, {})

\* x put into the descending list q behind every entry at least as confident.
RECURSIVE InsertDesc(_, _)
InsertDesc(q, x) ==
    IF q = <<>> THEN <<x>>
    ELSE IF Head(q).confidence >= x.confidence THEN <<Head(q)>> \o InsertDesc(Tail(q), x)
    ELSE <<x>> \o q

\* x put into the descending list q before every entry no more confident.
RECURSIVE InsertDescFirst(_, _)
InsertDescFirst(q, x) ==
    IF q = <<>> THEN <<x>>
    ELSE IF Head(q).confidence > x.confidence THEN <<Head(q)>> \o InsertDescFirst(Tail(q), x)
    ELSE <<x>> \o q

\* x put into the ascending list q behind every entry no more confident.
RECURSIVE InsertAsc(_, _)
InsertAsc(q, x) ==
    IF q = <<>> THEN <<x>>
    ELSE IF Head(q).confidence <= x.confidence THEN <<Head(q)>> \o InsertAsc(Tail(q), x)
    ELSE <<x>> \o q

RECURSIVE SortTiesReversedFrom(_, _, _)
SortTiesReversedFrom(values, n, acc) ==
    IF n > Len(values) THEN acc
    ELSE SortTiesReversedFrom(values, n + 1, InsertDescFirst(acc, values[n]))

\* A descending sort that is not stable: equal confidences end reversed.
SortTiesReversed(values) == SortTiesReversedFrom(values, 1, <<>>)

RECURSIVE SortAscendingFrom(_, _, _)
SortAscendingFrom(values, n, acc) ==
    IF n > Len(values) THEN acc
    ELSE SortAscendingFrom(values, n + 1, InsertAsc(acc, values[n]))

\* The sort without reverse=True.
SortAscending(values) == SortAscendingFrom(values, 1, <<>>)

RECURSIVE SortFrom(_, _, _)
SortFrom(values, n, acc) ==
    IF n > Len(values) THEN acc
    ELSE SortFrom(values, n + 1, InsertDesc(acc, values[n]))

\* unique_values.sort(key=lambda x: x["信頼度"], reverse=True): a stable
\* sort, so equal confidences keep their order.
SortByConfidence(values) == SortFrom(values, 1, <<>>)

\* "全候補": unique_values[:5]
TopCandidates == 5

\* The dict _extract_field_by_patterns returns for the sorted survivors
\* (keys "検出数", "最高信頼度", "全候補", "フィールドタイプ"), or None,
\* modelled as the empty dict: both are falsy, and no result is empty.
FieldResult(sorted, field_name) ==
    IF sorted = <<>> THEN EmptyDict
    ELSE [detected |-> Len(sorted),
          best |-> sorted[1],
          all_candidates |-> Slice(sorted, 0, TopCandidates),
          field_type |-> field_name]

\* unique_values after lines 226-227 of _extract_field_by_patterns.
SortedSurvivors(found) == SortByConfidence(DeduplicateValues(found))

\* "if field_results: extracted_fields[field_name] = field_results", added
\* to the fields extracted so far.
StoreField(fields_so_far, field_name, field_results) ==
    IF field_results # EmptyDict THEN (field_name :> field_results) @@ fields_so_far
    ELSE fields_so_far

\* The inputs of the aggregation: every candidate list of the bounds.  Value
\* texts are named in order of first appearance.
MaxCandidates == 6

ValueText(i) == [j \in 1..i |-> "v"]

ValuesOf(found) == {found[n].value : n \in 1..Len(found)}

Confidences == {700, 900}

Candidate(value, confidence, origin) ==
    [value |-> value, confidence |-> confidence, origin |-> origin]

CandInputs ==
    /\ found_values = <<>>
    /\ unique_values = <<>>
    /\ aggregated = EmptyDict

\* A strategy appends a candidate to found_values (lines 212 and 223).
EmitCandidate ==
    /\ regime = "candidates" /\ call = "none"
    /\ Len(found_values) < MaxCandidates
    /\ \E i \in 1..(Cardinality(ValuesOf(found_values)) + 1), c \in Confidences :
          found_values' = Append(found_values, Candidate(ValueText(i), c, Len(found_values)))
    /\ UNCHANGED <<regime, call, unique_values, aggregated, flatVars, layoutVars, runVars>>

SmartFieldExtractor_deduplicate_values ==
    /\ regime = "candidates" /\ call = "none"
    /\ call' = "SmartFieldExtractor._deduplicate_values"
    /\ unique_values' = DeduplicateValues(found_values)
    /\ UNCHANGED <<regime, found_values, aggregated, flatVars, layoutVars, runVars>>

\* Lines 225-237 of _extract_field_by_patterns and the store of its result
\* by extract_smart_fields (lines 124-125).
SmartFieldExtractor_aggregate ==
    /\ regime = "candidates" /\ call = "none"
    /\ call' = "SmartFieldExtractor._extract_field_by_patterns"
    /\ unique_values' = SortedSurvivors(found_values)
    /\ aggregated' = FieldResult(SortedSurvivors(found_values), "field")
    /\ extracted' = StoreField(EmptyDict, "field",
                               FieldResult(SortedSurvivors(found_values), "field"))
    /\ UNCHANGED <<regime, found_values, flatVars, full_text, page_tokens, config, tokens, runVars>>

NextAgg ==
    \/ EmitCandidate
    \/ SmartFieldExtractor_deduplicate_values
    \/ SmartFieldExtractor_aggregate

-----------------------------------------------------------------------------
(* SmartFieldExtractor: candidates from the patterns and the context clues *)
(* of a field.  A pattern is a record of its source text (src, a sequence  *)
(* of characters) and its atoms; confidences are thousandths.              *)

Pattern(src, atoms) == [src |-> src, atoms |-> atoms]

Digits == {"1", "2"}
Letters == {"k", "m", "v", "t", "e", "l", "K", "M", "T", "E", "L"}
Kanji == {"rei", "wa", "nen", "gatsu", "hi", "shi", "mei"}
Kana == {"ka", "na"}

\* The kanji of the date validators: year, month, day and the era names.
DateMarks == {"nen", "gatsu", "hi", "rei", "wa", "hei", "sei"}

\* needle in hay
Contains(hay, needle) ==
    \E p \in 0..(Len(hay) - Len(needle)) : SubSeq(hay, p + 1, p + Len(needle)) = needle

\* min(1.0, max(0.1, base_confidence)) without the bounds.
CalculatePatternConfidenceUnclamped(match_text, pattern) ==
    (IF Len(match_text) >= 10 THEN 950 ELSE IF Len(match_text) <= 2 THEN 700 ELSE 900)
    + (IF Contains(pattern, <<"\\", "d", "{">>) THEN 50 ELSE 0)
    + (IF Contains(pattern, <<"[">>) THEN 30 ELSE 0)

\* SmartFieldExtractor._calculate_pattern_confidence
CalculatePatternConfidence(match_text, pattern) ==
    Min(1000, Max(100,
        (IF Len(match_text) >= 10 THEN 950 ELSE IF Len(match_text) <= 2 THEN 700 ELSE 900)
        + (IF Contains(pattern, <<"\\", "d", "{">>) THEN 50 ELSE 0)
        + (IF Contains(pattern, <<"[">>) THEN 30 ELSE 0)))

\* The test of _find_coordinates_for_text_span on one token.
SpanTouches(token, start, end) ==
    \/ (token.start_pos >= start /\ token.end_pos <= end)
    \/ (token.start_pos <= start /\ token.end_pos >= end)
    \/ (start <= token.start_pos /\ token.start_pos <= end)
    \/ (start <= token.end_pos /\ token.end_pos <= end)

\* The box around the boxes all_coords (the centre is floored to a
\* thousandth).
MergeCoords(all_coords) ==
    IF all_coords = <<>> THEN EmptyDict
    ELSE [x_min |-> SeqMin([n \in 1..Len(all_coords) |-> all_coords[n].coordinates.x_min]),
          y_min |-> SeqMin([n \in 1..Len(all_coords) |-> all_coords[n].coordinates.y_min]),
          x_max |-> SeqMax([n \in 1..Len(all_coords) |-> all_coords[n].coordinates.x_max]),
          y_max |-> SeqMax([n \in 1..Len(all_coords) |-> all_coords[n].coordinates.y_max]),
          center_x |-> (SeqMin([n \in 1..Len(all_coords) |-> all_coords[n].coordinates.x_min])
                        + SeqMax([n \in 1..Len(all_coords) |-> all_coords[n].coordinates.x_max]))
                       \div 2,
          center_y |-> (SeqMin([n \in 1..Len(all_coords) |-> all_coords[n].coordinates.y_min])
                        + SeqMax([n \in 1..Len(all_coords) |-> all_coords[n].coordinates.y_max]))
                       \div 2]

\* SmartFieldExtractor._find_coordinates_for_text_span
FindCoordinatesForTextSpan(toks, start, end) ==
    MergeCoords(SelectSeq(toks, LAMBDA t : SpanTouches(t, start, end)
                                            /\ t.coordinates # EmptyDict))

\* The candidate of one match (lines 212-218); match_text is match.group().
PatternCandidate(match_text, pattern, match_coords) ==
    [value |-> Strip(match_text),
     confidence |-> CalculatePatternConfidence(match_text, pattern.src),
     method |-> "pattern",
     coordinates |-> match_coords,
     pattern |-> pattern.src]

\* The candidates of the matches of one pattern, from match n on.
RECURSIVE MatchCandidates(_, _, _, _, _)
MatchCandidates(matches, n, pattern, toks, ft) ==
    IF n > Len(matches) THEN <<>>
    ELSE <<PatternCandidate(Slice(ft, matches[n].start, MatchEnd(matches[n])), pattern,
                            FindCoordinatesForTextSpan(toks, matches[n].start,
                                                       MatchEnd(matches[n])))>>
         \o MatchCandidates(matches, n + 1, pattern, toks, ft)

\* The loop over the patterns of a field (lines 204-218), from pattern n on.
RECURSIVE PatternLoop(_, _, _, _)
PatternLoop(patterns, n, toks, ft) ==
    IF n > Len(patterns) THEN <<>>
    ELSE MatchCandidates(FindIter(patterns[n].atoms, ft, TRUE), 1, patterns[n], toks, ft)
         \o PatternLoop(patterns, n + 1, toks, ft)

\* SmartFieldExtractor._is_valid_field_value; the field types are written
\* date, amount, name, address, phone, email and company.
IsValidFieldValueStripped(t, field_type) ==
    IF Len(t) < 1 THEN FALSE
    ELSE CASE field_type = "name" ->
                  ReSearch(<<Rep(Kanji \cup Kana \cup Letters, 2, -1)>>, t, FALSE).ok
           [] field_type = "amount" -> ReSearch(<<Plus(Digits \cup {","})>>, t, FALSE).ok
           [] field_type = "address" ->
                  Len(t) >= 3 /\ ReSearch(<<One(Kanji)>>, t, FALSE).ok
           [] field_type = "phone" ->
                  ReSearch(<<Rep(Digits \cup {"-", "minus", "(", ")"}, 8, -1)>>, t, FALSE).ok
           [] field_type = "date" -> ReSearch(<<One(Digits \cup DateMarks)>>, t, FALSE).ok
           [] field_type = "email" -> Contains(t, <<"@">>)
           [] field_type = "company" -> Len(t) >= 2
           [] OTHER -> TRUE

IsValidFieldValue(t, field_type) == IsValidFieldValueStripped(Strip(t), field_type)

\* search_range of _find_context_based_values
SearchRange == 5

\* The candidate taken from a token near a clue (lines 287-293).
ContextCandidate(candidate, clue) ==
    [value |-> Strip(candidate.text),
     confidence |-> (candidate.confidence * 8) \div 10,
     method |-> "context",
     coordinates |-> candidate.coordinates,
     clue |-> clue]

\* The inner loop of _find_context_based_values around token i, from j on
\* (0-based).
RECURSIVE ContextAround(_, _, _, _, _, _)
ContextAround(toks, i, j, end_idx, clue, field_type) ==
    IF j >= end_idx THEN <<>>
    ELSE (IF j # i /\ IsValidFieldValue(toks[j + 1].text, field_type)
          THEN <<ContextCandidate(toks[j + 1], clue)>>
          ELSE <<>>)
         \o ContextAround(toks, i, j + 1, end_idx, clue, field_type)

\* The outer loop of _find_context_based_values, from token i on.
RECURSIVE ContextFrom(_, _, _, _)
ContextFrom(toks, i, clue, field_type) ==
    IF i >= Len(toks) THEN <<>>
    ELSE (IF Contains(toks[i + 1].text, clue)
          THEN ContextAround(toks, i, Max(0, i - SearchRange),
                             Min(Len(toks), i + SearchRange + 1), clue, field_type)
          ELSE <<>>)
         \o ContextFrom(toks, i + 1, clue, field_type)

\* SmartFieldExtractor._find_context_based_values
FindContextBasedValues(toks, clue, field_type) == ContextFrom(toks, 0, clue, field_type)

\* The loop over the context clues of a field (lines 221-223).
RECURSIVE ClueLoop(_, _, _, _)
ClueLoop(context_clues, n, toks, field_type) ==
    IF n > Len(context_clues) THEN <<>>
    ELSE FindContextBasedValues(toks, context_clues[n], field_type)
         \o ClueLoop(context_clues, n + 1, toks, field_type)

\* found_values of _extract_field_by_patterns before the aggregation.
FoundValues(field_name, field_config, toks, ft) ==
    PatternLoop(field_config.patterns, 1, toks, ft)
    \o ClueLoop(field_config.context_clues, 1, toks, field_name)

\* The registry of _initialize_patterns: the fields, patterns and clues that
\* can match a text written in the characters of the model.
PhoneDashed ==
    Pattern(<<"\\", "d", "{", "2", ",", "5", "}", "[", "-", "minus", "]",
              "\\", "d", "{", "2", ",", "4", "}", "[", "-", "minus", "]",
              "\\", "d", "{", "2", ",", "4", "}">>,
            <<Rep(Digits, 2, 5), One({"-", "minus"}), Rep(Digits, 2, 4),
              One({"-", "minus"}), Rep(Digits, 2, 4)>>)

PhoneDigits ==
    Pattern(<<"\\", "d", "{", "1", "0", ",", "1", "1", "}">>, <<Rep(Digits, 10, 11)>>)

PhoneTel ==
    Pattern(<<"T", "E", "L", "\\", "s", "*", "[", ":", ";", "]", "\\", "s", "*",
              "[", "\\", "d", "\\", "-", "minus", "\\", "(", "\\", ")", "]", "+">>,
            <<One({"T"}), One({"E"}), One({"L"}), Star(WS), One({":", ";"}), Star(WS),
              Plus(Digits \cup {"-", "minus", "(", ")"})>>)

EmailAddress ==
    Pattern(<<"[", "a", "-", "z", "A", "-", "Z", "0", "-", "9", ".", "_", "%", "+", "-", "]",
              "+", "@", "[", "a", "-", "z", "A", "-", "Z", "0", "-", "9", ".", "-", "]", "+",
              "\\", ".", "[", "a", "-", "z", "A", "-", "Z", "]", "{", "2", ",", "}">>,
            <<Plus(Letters \cup Digits \cup {".", "_", "%", "+", "-"}), One({"@"}),
              Plus(Letters \cup Digits \cup {".", "-"}), One({"."}), Rep(Letters, 2, -1)>>)

NameKatakana ==
    Pattern(<<"[", "ka", "-", "na", "]", "{", "2", ",", "8", "}">>, <<Rep(Kana, 2, 8)>>)

NameLatin ==
    Pattern(<<"[", "A", "-", "Z", "a", "-", "z", "]", "+", "\\", "s", "+",
              "[", "A", "-", "Z", "a", "-", "z", "]", "+">>,
            <<Plus(Letters), Plus(WS), Plus(Letters)>>)

DateReiwa ==
    Pattern(<<"rei", "wa", "\\", "s", "*", "\\", "d", "+", "\\", "s", "*", "nen",
              "\\", "s", "*", "\\", "d", "+", "\\", "s", "*", "gatsu",
              "\\", "s", "*", "\\", "d", "+", "\\", "s", "*", "hi">>,
            <<One({"rei"}), One({"wa"}), Star(WS), Plus(Digits), Star(WS), One({"nen"}),
              Star(WS), Plus(Digits), Star(WS), One({"gatsu"}),
              Star(WS), Plus(Digits), Star(WS), One({"hi"})>>)

DateYearFirst ==
    Pattern(<<"\\", "d", "{", "4", "}", "[", "-", "/", "]",
              "\\", "d", "{", "1", ",", "2", "}", "[", "-", "/", "]",
              "\\", "d", "{", "1", ",", "2", "}">>,
            <<Rep(Digits, 4, 4), One({"-", "/"}), Rep(Digits, 1, 2), One({"-", "/"}),
              Rep(Digits, 1, 2)>>)

DateDayFirst ==
    Pattern(<<"\\", "d", "{", "1", ",", "2", "}", "[", "-", "/", "]",
              "\\", "d", "{", "1", ",", "2", "}", "[", "-", "/", "]",
              "\\", "d", "{", "4", "}">>,
            <<Rep(Digits, 1, 2), One({"-", "/"}), Rep(Digits, 1, 2), One({"-", "/"}),
              Rep(Digits, 4, 4)>>)

SmartRegistry ==
    [date |-> [patterns |-> <<DateReiwa, DateYearFirst, DateDayFirst>>,
               context_clues |-> <<<<"nen", "gatsu", "hi">>>>],
     name |-> [patterns |-> <<NameKatakana, NameLatin>>,
               context_clues |-> <<<<"shi">>>>],
     phone |-> [patterns |-> <<PhoneDashed, PhoneDigits, PhoneTel>>,
                context_clues |-> <<<<"T", "E", "L">>, <<"T", "e", "l">>>>],
     email |-> [patterns |-> <<EmailAddress>>,
                context_clues |-> <<<<"@">>>>]]

\* The documents of the smart extractor: up to MaxSmartTokens tokens, each a
\* piece of text with a confidence; the text of the document is the pieces
\* in a row, and token n covers piece n.
MaxSmartTokens == 3

Pieces ==
    {<<"T", "E", "L">>,
     <<":">>,
     <<"1", "2", "1", "2", "1", "2", "1", "2", "1", "2">>,
     <<"1", "2", "-", "1", "2", "-", "1", "2", "1", "2">>,
     <<"shi", "ka", "na">>,
     <<"k", " ", "m", "\n">>,
     <<"k", "@", "k", ".", "k", "m">>,
     <<"rei", "wa", "1", "nen", "1", "gatsu", "1", "hi">>}

TokenConfidences == {0, 950}

SmartDocs == SeqsUpTo(Pieces \X TokenConfidences, MaxSmartTokens)

RECURSIVE TextOf(_)
TextOf(doc) == IF doc = <<>> THEN <<>> ELSE Head(doc)[1] \o TextOf(Tail(doc))

\* The box of the n-th token of a line of tokens.
BoxAt(n) ==
    <<[x |-> 100 * n, y |-> 100], [x |-> 100 * n + 80, y |-> 100],
      [x |-> 100 * n + 80, y |-> 200], [x |-> 100 * n, y |-> 200]>>

\* A segment as Document AI writes it: a start index of 0 is left out.
SegmentOf(start, end) ==
    IF start = 0 THEN [endIndex |-> end] ELSE [startIndex |-> start, endIndex |-> end]

RawTokensOf(doc) ==
    [n \in 1..Len(doc) |->
        [textSegments |-> <<SegmentOf(Len(TextOf(SubSeq(doc, 1, n - 1))),
                                      Len(TextOf(SubSeq(doc, 1, n))))>>,
         confidence |-> doc[n][2],
         normalizedVertices |-> BoxAt(n)]]

\* The state at line 117 of extract_smart_fields: the tokens are those of
\* _extract_token_info.
SmartInputs ==
    /\ \E doc \in SmartDocs :
          /\ full_text = TextOf(doc)
          /\ page_tokens = RawTokensOf(doc)
          /\ tokens = ExtractTokenInfo(RawTokensOf(doc), TextOf(doc))
    /\ config = SmartRegistry
    /\ extracted = NoExtracted

\* The result of one field, stored (lines 229-237 and 124-125).
StoreResult(field_name, field_results) ==
    /\ aggregated' = field_results
    /\ extracted' = StoreField(EmptyDict, field_name, field_results)

\* Lines 225-237 for the sorted survivors.
AggregateSorted(field_name, sorted) ==
    /\ unique_values' = sorted
    /\ StoreResult(field_name, FieldResult(sorted, field_name))

\* Lines 225-237 for the candidates found.
AggregateFound(field_name, found) ==
    /\ found_values' = found
    /\ AggregateSorted(field_name, SortedSurvivors(found))

\* _calculate_pattern_confidence for the text of a token and a pattern of
\* the registry; the arguments and the result are kept as a candidate.
SmartFieldExtractor_calculate_pattern_confidence ==
    /\ regime = "smart" /\ call = "none"
    /\ call' = "SmartFieldExtractor._calculate_pattern_confidence"
    /\ \E f \in DOMAIN config, n \in 1..Len(tokens) :
          \E k \in 1..Len(config[f].patterns) :
              found_values' =
                  <<PatternCandidate(tokens[n].text, config[f].patterns[k], EmptyDict)>>
    /\ UNCHANGED <<regime, unique_values, aggregated, flatVars, layoutVars, runVars>>

SmartFieldExtractor_find_context_based_values ==
    /\ regime = "smart" /\ call = "none"
    /\ call' = "SmartFieldExtractor._find_context_based_values"
    /\ \E f \in DOMAIN config :
          \E k \in 1..Len(config[f].context_clues) :
              found_values' = FindContextBasedValues(tokens, config[f].context_clues[k], f)
    /\ UNCHANGED <<regime, unique_values, aggregated, flatVars, layoutVars, runVars>>

\* _extract_field_by_patterns for one field of the registry, as
\* extract_smart_fields calls it (lines 120-125).
SmartFieldExtractor_extract_field_by_patterns ==
    /\ regime = "smart" /\ call = "none"
    /\ call' = "SmartFieldExtractor._extract_field_by_patterns"
    /\ \E f \in DOMAIN config :
          AggregateFound(f, FoundValues(f, config[f], tokens, full_text))
    /\ UNCHANGED <<regime, flatVars, full_text, page_tokens, config, tokens, runVars>>

NextSmart ==
    \/ SmartFieldExtractor_calculate_pattern_confidence
    \/ SmartFieldExtractor_find_context_based_values
    \/ SmartFieldExtractor_extract_field_by_patterns

-----------------------------------------------------------------------------
(* FormFieldExtractor: the structured form fields.  A field definition is  *)
(* a dict with the optional keys keywords, context_keywords and            *)
(* field_type; a missing result (None) is the empty dict.                  *)

\* Characters of the validators' classes that no text of the model holds:
\* the kanji for prefecture, for company and for department.
AddressMarks == {"ken"}
CompanyMarks == {"kabu"}
DepartmentMarks == {"bu"}

\* FormFieldExtractor._is_valid_field_value after text.strip()
FormIsValidStripped(t, field_type) ==
    CASE field_type = "person_name" ->
             ReSearch(<<Rep(Kana \cup Kanji \cup Letters, 2, -1)>>, t, FALSE).ok
      [] field_type = "amount" ->
             ReSearch(<<Plus(Digits \cup {",", "."})>>, t, FALSE).ok /\ Len(t) >= 1
      [] field_type = "address" ->
             ReSearch(<<One(AddressMarks)>>, t, FALSE).ok \/ Len(t) >= 4
      [] field_type = "phone" ->
             ReSearch(<<Plus(Digits \cup {"-", "(", ")"})>>, t, FALSE).ok /\ Len(t) >= 8
      [] field_type = "date" -> ReSearch(<<One(Digits \cup DateMarks)>>, t, FALSE).ok
      [] field_type = "company" ->
             ReSearch(<<One(CompanyMarks)>>, t, FALSE).ok \/ Len(t) >= 3
      [] field_type = "department" ->
             ReSearch(<<One(DepartmentMarks)>>, t, FALSE).ok \/ Len(t) >= 2
      [] field_type = "email" -> Contains(t, <<"@">>) /\ Contains(t, <<".">>)
      [] OTHER -> Len(t) >= 2

\* FormFieldExtractor._is_valid_field_value
FormIsValidFieldValue(t, field_type, context_keywords) ==
    FormIsValidStripped(Strip(t), field_type)

\* search_range of _extract_field_value_from_context
FormSearchRange == 5

\* The value taken from a token (lines 392-397).
FieldValueOf(token, field_type) ==
    [text |-> Strip(token.text),
     confidence |-> token.confidence,
     coordinates |-> Get(token, "coordinates", EmptyDict),
     method |-> <<field_type, "_pattern_match">>]

\* The loop over search_tokens (lines 385-399), from token n on.
RECURSIVE FirstValidValue(_, _, _, _)
FirstValidValue(search_tokens, n, field_type, context_keywords) ==
    IF n > Len(search_tokens) THEN EmptyDict
    ELSE IF Strip(search_tokens[n].text) # <<>>
            /\ FormIsValidFieldValue(Strip(search_tokens[n].text), field_type, context_keywords)
         THEN FieldValueOf(search_tokens[n], field_type)
         ELSE FirstValidValue(search_tokens, n + 1, field_type, context_keywords)

\* FormFieldExtractor._extract_field_value_from_context
ExtractFieldValueFromContext(toks, keyword_idx, field_type, context_keywords, reverse_search) ==
    IF reverse_search
    THEN FirstValidValue(PySlice(toks, Max(0, keyword_idx - FormSearchRange), keyword_idx),
                         1, field_type, context_keywords)
    ELSE FirstValidValue(PySlice(toks, keyword_idx + 1,
                                 Min(Len(toks), keyword_idx + FormSearchRange)),
                         1, field_type, context_keywords)

\* The entry of a keyword match (lines 320-326).
KeywordEntry(field_value, keyword) ==
    [value |-> field_value.text,
     confidence |-> field_value.confidence,
     coordinates |-> field_value.coordinates,
     keyword_matched |-> keyword,
     extraction_method |-> field_value.method]

\* The entry of a context keyword match (lines 339-345).
ContextEntry(field_value, context_keyword) ==
    [value |-> field_value.text,
     confidence |-> field_value.confidence,
     coordinates |-> field_value.coordinates,
     context_keyword_matched |-> context_keyword,
     extraction_method |-> field_value.method]

\* Lines 319-326 for the value found behind a keyword.
KeywordAppend(acc, field_value, keyword) ==
    IF field_value # EmptyDict THEN Append(acc, KeywordEntry(field_value, keyword)) ELSE acc

\* The loop over the keywords for token i (lines 313-326), from keyword n on.
RECURSIVE KeywordLoop(_, _, _, _, _, _, _)
KeywordLoop(toks, i, keywords, n, field_type, context_keywords, acc) ==
    IF n > Len(keywords) THEN acc
    ELSE KeywordLoop(toks, i, keywords, n + 1, field_type, context_keywords,
             IF Contains(toks[i + 1].text, keywords[n])
             THEN KeywordAppend(acc,
                      ExtractFieldValueFromContext(toks, i, field_type, context_keywords, FALSE),
                      keywords[n])
             ELSE acc)

\* The loop over the tokens (lines 309-326), from token i on.
RECURSIVE KeywordTokenLoop(_, _, _, _, _, _)
KeywordTokenLoop(toks, i, keywords, field_type, context_keywords, acc) ==
    IF i >= Len(toks) THEN acc
    ELSE KeywordTokenLoop(toks, i + 1, keywords, field_type, context_keywords,
             KeywordLoop(toks, i, keywords, 1, field_type, context_keywords, acc))

\* Lines 336-345 for the value found before a context keyword.
ContextAppend(acc, field_value, context_keyword) ==
    IF field_value # EmptyDict
       /\ ~(\E n \in 1..Len(acc) : acc[n].value = field_value.text)
    THEN Append(acc, ContextEntry(field_value, context_keyword))
    ELSE acc

\* The loop over the tokens for one context keyword (lines 331-345).
RECURSIVE ContextTokenLoop(_, _, _, _, _)
ContextTokenLoop(toks, i, context_keyword, field_type, acc) ==
    IF i >= Len(toks) THEN acc
    ELSE ContextTokenLoop(toks, i + 1, context_keyword, field_type,
             IF Contains(toks[i + 1].text, context_keyword)
             THEN ContextAppend(acc,
                      ExtractFieldValueFromContext(toks, i, field_type, <<>>, TRUE),
                      context_keyword)
             ELSE acc)

\* The loop over the context keywords (lines 330-345), from keyword n on.
RECURSIVE ContextKeywordLoop(_, _, _, _, _)
ContextKeywordLoop(toks, context_keywords, n, field_type, acc) ==
    IF n > Len(context_keywords) THEN acc
    ELSE ContextKeywordLoop(toks, context_keywords, n + 1, field_type,
             ContextTokenLoop(toks, 0, context_keywords[n], field_type, acc))

\* max(found_values, key=confidence): the first entry of the highest
\* confidence.
BestMatch(values) ==
    values[CHOOSE n \in 1..Len(values) :
              /\ \A m \in 1..Len(values) : values[m].confidence <= values[n].confidence
              /\ \A m \in 1..(n - 1) : values[m].confidence < values[n].confidence]

\* The result of _extract_single_field for the entries found (lines 347-355).
SingleFieldResult(field_type, values) ==
    IF values # <<>>
    THEN [field_type |-> field_type,
          found_count |-> Len(values),
          values |-> values,
          best_match |-> BestMatch(values)]
    ELSE EmptyDict

\* found_values of _extract_single_field.
SingleFieldValues(keywords, context_keywords, field_type, toks) ==
    ContextKeywordLoop(toks, context_keywords, 1, field_type,
        KeywordTokenLoop(toks, 0, keywords, field_type, context_keywords, <<>>))

\* FormFieldExtractor._extract_single_field
ExtractSingleField(field_name, definition, toks, ft) ==
    SingleFieldResult(Get(definition, "field_type", "unknown"),
        SingleFieldValues(Get(definition, "keywords", <<>>),
                          Get(definition, "context_keywords", <<>>),
                          Get(definition, "field_type", "unknown"), toks))

\* The structured result with every found field under its field type.
ExtractStructuredFormFieldsByType(form_fields, toks, ft) ==
    [structured_fields |->
        [t \in {Get(form_fields[f], "field_type", "unknown") :
                   f \in {g \in DOMAIN form_fields :
                             ExtractSingleField(g, form_fields[g], toks, ft) # EmptyDict}} |->
            ExtractSingleField(
                CHOOSE f \in DOMAIN form_fields : Get(form_fields[f], "field_type", "unknown") = t,
                form_fields[CHOOSE f \in DOMAIN form_fields :
                                Get(form_fields[f], "field_type", "unknown") = t],
                toks, ft)]]

\* FormFieldExtractor._extract_structured_form_fields
ExtractStructuredFormFields(form_fields, toks, ft) ==
    [structured_fields |->
        [f \in {g \in DOMAIN form_fields :
                   ExtractSingleField(g, form_fields[g], toks, ft) # EmptyDict} |->
            ExtractSingleField(f, form_fields[f], toks, ft)]]

\* The form fields of _get_default_field_definitions whose validators can
\* accept a text of the model, written name, date, phone and email, and a
\* field of the caller, memo, without context keywords and field type.
FormFieldPool ==
    [name |-> [keywords |-> <<<<"shi", "mei">>>>,
               context_keywords |-> <<<<"shi">>>>,
               field_type |-> "person_name"],
     date |-> [keywords |-> <<<<"nen", "gatsu", "hi">>>>,
               context_keywords |-> <<<<"rei", "wa">>, <<"nen">>, <<"gatsu">>, <<"hi">>>>,
               field_type |-> "date"],
     phone |-> [keywords |-> <<<<"T", "E", "L">>, <<"T", "e", "l">>>>,
                context_keywords |-> <<<<"-">>>>,
                field_type |-> "phone"],
     email |-> [keywords |-> <<<<"e", "m", "a", "i", "l">>, <<"E", "-", "m", "a", "i", "l">>>>,
                context_keywords |-> <<<<"@">>, <<".", "c", "o", "m">>>>,
                field_type |-> "email"],
     memo |-> [keywords |-> <<<<"k">>>>]]

\* The field definitions of a run: up to MaxFormFields fields of the pool.
MaxFormFields == 2

FormDefinitions ==
    {[form_fields |-> [f \in S |-> FormFieldPool[f]]] :
        S \in {T \in SUBSET DOMAIN FormFieldPool : Cardinality(T) <= MaxFormFields}}

\* The state at line 133 of process_document_json: the tokens are those of
\* _extract_tokens.
FormInputs ==
    /\ \E doc \in SmartDocs :
          /\ full_text = TextOf(doc)
          /\ page_tokens = RawTokensOf(doc)
          /\ tokens = ExtractTokens(RawTokensOf(doc), TextOf(doc))
    /\ config \in FormDefinitions
    /\ extracted = NoExtracted

\* The candidates and the result of one field.
SingleFieldStored(field_info) ==
    /\ aggregated' = field_info
    /\ found_values' = Get(field_info, "values", <<>>)

FormFieldExtractor_extract_single_field ==
    /\ regime = "form" /\ call = "none"
    /\ call' = "FormFieldExtractor._extract_single_field"
    /\ \E f \in DOMAIN config.form_fields :
          SingleFieldStored(ExtractSingleField(f, config.form_fields[f], tokens, full_text))
    /\ UNCHANGED <<regime, unique_values, flatVars, layoutVars, runVars>>

FormFieldExtractor_extract_structured_form_fields ==
    /\ regime = "form" /\ call = "none"
    /\ call' = "FormFieldExtractor._extract_structured_form_fields"
    /\ extracted' = ExtractStructuredFormFields(Get(config, "form_fields", EmptyDict),
                                                tokens, full_text)
    /\ UNCHANGED <<regime, flatVars, full_text, page_tokens, config, tokens, candVars, runVars>>

NextForm ==
    \/ FormFieldExtractor_extract_single_field
    \/ FormFieldExtractor_extract_structured_form_fields

-----------------------------------------------------------------------------
(* FormFieldExtractor: a whole document.  json_data is the response of     *)
(* Document AI: json_data["document"] holds "text" and "pages", a page its *)
(* "dimension" and its raw "tokens".  Page dimensions are in pixels; the   *)
(* bounds of a coordinate region are thousandths of the page.              *)

\* "coordinate_fields" of _get_default_field_definitions
DefaultCoordinateFields ==
    [header_area |-> [x_min |-> 0, y_min |-> 0, x_max |-> 1000, y_max |-> 300],
     body_area |-> [x_min |-> 0, y_min |-> 300, x_max |-> 1000, y_max |-> 800],
     footer_area |-> [x_min |-> 0, y_min |-> 800, x_max |-> 1000, y_max |-> 1000]]

\* FormFieldExtractor._get_default_field_definitions, with the form fields
\* the model can express.
GetDefaultFieldDefinitions ==
    [coordinate_fields |-> DefaultCoordinateFields,
     form_fields |-> [f \in {"name", "date", "phone", "email"} |-> FormFieldPool[f]]]

\* "if not x" for a dict or a list
Empty(x) == x = EmptyDict

\* None where a dict is expected (an argument left out), and None where a
\* number is expected (the dimensions of a page are positive).
NoneDict == [None |-> TRUE]
NoneNumber == 0

IsNone(d) == "None" \in DOMAIN d

\* "field_definitions or self._get_default_field_definitions()"
OrDefault(field_definitions) ==
    IF IsNone(field_definitions) \/ Empty(field_definitions)
    THEN GetDefaultFieldDefinitions ELSE field_definitions

\* FormFieldExtractor.__init__
FormFieldExtractorInit(field_definitions) ==
    [field_definitions |-> OrDefault(field_definitions),
     page_width |-> NoneNumber,
     page_height |-> NoneNumber]

\* The test of lines 251-252 for a token with coordinates: area["x_min"],
\* area["x_max"], area["y_min"] and area["y_max"] are read in this order,
\* each only if the comparisons before it hold.  AreaKeyError is a read of
\* a bound the region lacks.
AreaKeyError(area, coords) ==
    \/ "x_min" \notin DOMAIN area
    \/ /\ area.x_min <= Get(coords, "center_x", 0)
       /\ \/ "x_max" \notin DOMAIN area
          \/ /\ Get(coords, "center_x", 0) <= area.x_max
             /\ \/ "y_min" \notin DOMAIN area
                \/ /\ area.y_min <= Get(coords, "center_y", 0)
                   /\ "y_max" \notin DOMAIN area

\* InArea with the vertical bounds of the region left unread.
InAreaHorizontal(area, coords) ==
    /\ area.x_min <= Get(coords, "center_x", 0)
    /\ Get(coords, "center_x", 0) <= area.x_max

InArea(area, coords) ==
    /\ area.x_min <= Get(coords, "center_x", 0)
    /\ Get(coords, "center_x", 0) <= area.x_max
    /\ area.y_min <= Get(coords, "center_y", 0)
    /\ Get(coords, "center_y", 0) <= area.y_max

\* field_tokens of one region (lines 244-257), from token n on.
RECURSIVE FieldTokens(_, _, _)
FieldTokens(area, toks, n) ==
    IF n > Len(toks) THEN <<>>
    ELSE (IF ~Empty(Get(toks[n], "coordinates", EmptyDict))
             /\ InArea(area, Get(toks[n], "coordinates", EmptyDict))
          THEN <<[text |-> toks[n].text,
                  confidence |-> toks[n].confidence,
                  coordinates |-> toks[n].coordinates]>>
          ELSE <<>>)
         \o FieldTokens(area, toks, n + 1)

\* "".join([t["text"] for t in field_tokens])
RECURSIVE CombinedText(_)
CombinedText(field_tokens) ==
    IF field_tokens = <<>> THEN <<>>
    ELSE Head(field_tokens).text \o CombinedText(Tail(field_tokens))

\* The entry of a region with tokens (lines 259-264).
AreaEntry(area, field_tokens) ==
    [tokens |-> field_tokens,
     combined_text |-> CombinedText(field_tokens),
     area_definition |-> area]

\* Whether _extract_coordinate_based_fields raises KeyError.
CoordinateKeyError(coordinate_fields, toks) ==
    \E f \in DOMAIN coordinate_fields : \E n \in 1..Len(toks) :
        /\ ~Empty(Get(toks[n], "coordinates", EmptyDict))
        /\ AreaKeyError(coordinate_fields[f], toks[n].coordinates)

\* FormFieldExtractor._extract_coordinate_based_fields, when it returns.
ExtractCoordinateBasedFields(coordinate_fields, toks) ==
    [f \in {g \in DOMAIN coordinate_fields :
               FieldTokens(coordinate_fields[g], toks, 1) # <<>>} |->
        AreaEntry(coordinate_fields[f], FieldTokens(coordinate_fields[f], toks, 1))]

\* The patterns of _extract_pattern_based_fields; "hon" and "mai" stand for
\* the counters of long objects and of sheets.
FormDateYear ==
    Pattern(<<"\\", "d", "{", "4", "}", "\\", "s", "*", "nen",
              "\\", "s", "*", "\\", "d", "{", "1", ",", "2", "}", "\\", "s", "*", "gatsu",
              "\\", "s", "*", "\\", "d", "{", "1", ",", "2", "}", "\\", "s", "*", "hi">>,
            <<Rep(Digits, 4, 4), Star(WS), One({"nen"}), Star(WS), Rep(Digits, 1, 2),
              Star(WS), One({"gatsu"}), Star(WS), Rep(Digits, 1, 2), Star(WS), One({"hi"})>>)

FormPhoneGrouped ==
    Pattern(<<"\\", "d", "{", "2", ",", "5", "}", "[", "-", "\\", "s", "]", "?",
              "\\", "d", "{", "2", ",", "4", "}", "[", "-", "\\", "s", "]", "?",
              "\\", "d", "{", "2", ",", "4", "}">>,
            <<Rep(Digits, 2, 5), Rep({"-"} \cup WS, 0, 1), Rep(Digits, 2, 4),
              Rep({"-"} \cup WS, 0, 1), Rep(Digits, 2, 4)>>)

FormPhoneDigits ==
    Pattern(<<"\\", "d", "{", "2", ",", "5", "}">>, <<Rep(Digits, 2, 5)>>)

NumberHon ==
    Pattern(<<"\\", "d", "+", "\\", "s", "*", "hon">>,
            <<Plus(Digits), Star(WS), One({"hon"})>>)

NumberMai ==
    Pattern(<<"\\", "d", "+", "\\", "s", "*", "mai">>,
            <<Plus(Digits), Star(WS), One({"mai"})>>)

NumberDecimal ==
    Pattern(<<"\\", "d", "+", "\\", ".", "?", "\\", "d", "*">>,
            <<Plus(Digits), Rep({"."}, 0, 1), Star(Digits)>>)

date_patterns == <<DateReiwa, FormDateYear>>
phone_patterns == <<FormPhoneGrouped, FormPhoneDigits>>
number_patterns == <<NumberHon, NumberMai, NumberDecimal>>

\* match.group()
MatchGroup(s, m) == Slice(s, m.start, MatchEnd(m))

\* The entries one token adds to result["dates"] (lines 481-489), from
\* pattern n on.
RECURSIVE DateEntries(_, _)
DateEntries(token, n) ==
    IF n > Len(date_patterns) THEN <<>>
    ELSE (IF ReSearch(date_patterns[n].atoms, token.text, FALSE).ok
          THEN <<[text |-> token.text,
                  coordinates |-> token.coordinates,
                  confidence |-> token.confidence,
                  pattern |-> date_patterns[n].src]>>
          ELSE <<>>)
         \o DateEntries(token, n + 1)

\* The entry of result["phone_numbers"] for the match m (lines 493-500).
PhoneEntry(token, m) ==
    IF m.ok /\ Len(MatchGroup(token.text, m)) >= 4
    THEN <<[text |-> token.text,
            matched_value |-> MatchGroup(token.text, m),
            coordinates |-> token.coordinates,
            confidence |-> token.confidence]>>
    ELSE <<>>

RECURSIVE PhoneEntries(_, _)
PhoneEntries(token, n) ==
    IF n > Len(phone_patterns) THEN <<>>
    ELSE PhoneEntry(token, ReSearch(phone_patterns[n].atoms, token.text, FALSE))
         \o PhoneEntries(token, n + 1)

\* The entry of result["numbers"] for the match m (lines 503-511).
NumberEntry(token, m, pattern) ==
    IF m.ok
    THEN <<[text |-> token.text,
            matched_value |-> MatchGroup(token.text, m),
            coordinates |-> token.coordinates,
            confidence |-> token.confidence,
            pattern_type |-> pattern.src]>>
    ELSE <<>>

RECURSIVE NumberEntries(_, _)
NumberEntries(token, n) ==
    IF n > Len(number_patterns) THEN <<>>
    ELSE NumberEntry(token, ReSearch(number_patterns[n].atoms, token.text, FALSE),
                     number_patterns[n])
         \o NumberEntries(token, n + 1)

\* FormFieldExtractor._extract_pattern_based_fields, from token n on; acc is
\* result.
RECURSIVE PatternFieldsFrom(_, _, _)
PatternFieldsFrom(toks, n, acc) ==
    IF n > Len(toks) THEN acc
    ELSE PatternFieldsFrom(toks, n + 1,
             [dates |-> acc.dates \o DateEntries(toks[n], 1),
              numbers |-> acc.numbers \o NumberEntries(toks[n], 1),
              phone_numbers |-> acc.phone_numbers \o PhoneEntries(toks[n], 1)])

ExtractPatternBasedFields(toks, ft) ==
    PatternFieldsFrom(toks, 1, [dates |-> <<>>, numbers |-> <<>>, phone_numbers |-> <<>>])

\* dict.update: the keys of update replace those of d.
Update(d, update) == update @@ d

\* FormFieldExtractor._extract_fields, when it returns.
ExtractFields(field_definitions, toks, ft) ==
    Update(Update(ExtractCoordinateBasedFields(
                      Get(field_definitions, "coordinate_fields", EmptyDict), toks),
                  ExtractStructuredFormFields(
                      Get(field_definitions, "form_fields", EmptyDict), toks, ft)),
           ExtractPatternBasedFields(toks, ft))

\* The exception that leaves _extract_fields ("none": it returns).
ExtractFieldsRaised(field_definitions, toks) ==
    IF CoordinateKeyError(Get(field_definitions, "coordinate_fields", EmptyDict), toks)
    THEN "KeyError" ELSE "none"

\* page.get("dimension", {}).get(key, default)
PageDimension(page, key, default) == Get(Get(page, "dimension", EmptyDict), key, default)

\* Lines 105-106: the dimensions of the page are kept on the instance.
WithPageWidth(self, page) == [self EXCEPT !.page_width = PageDimension(page, "width", 1)]
WithPageHeight(self, page) == [self EXCEPT !.page_height = PageDimension(page, "height", 1)]
WithDimensions(self, page) == WithPageHeight(WithPageWidth(self, page), page)

\* The result of lines 108-121 with the fields and the tokens of lines
\* 127-133; width and height are the values read from self.page_width and
\* self.page_height, now is datetime.now().  detected_languages is copied
\* through and left out.
DocumentResult(pages, page, width, height, now, toks, extracted_fields) ==
    [document_info |->
        [page_count |-> Len(pages),
         page_dimensions |-> [width |-> width, height |-> height,
                              unit |-> PageDimension(page, "unit", "pixels")],
         processed_at |-> now],
     extracted_fields |-> extracted_fields,
     raw_text_elements |-> toks]

\* What a call leaves: the attributes of the instance, the value returned
\* and the exception raised ("none": the call returned).
Outcome(self, value, exception) == [self |-> self, result |-> value, raised |-> exception]

\* Lines 108-135 for the tokens of the page; self holds the dimensions.
ProcessPage(self, pages, now, ft, toks) ==
    IF ExtractFieldsRaised(self.field_definitions, toks) # "none"
    THEN Outcome(self, EmptyDict, ExtractFieldsRaised(self.field_definitions, toks))
    ELSE Outcome(self,
                 DocumentResult(pages, pages[1], self.page_width, self.page_height, now,
                                toks, ExtractFields(self.field_definitions, toks, ft)),
                 "none")

\* process_document_json of an extractor that keeps the fields of a document
\* only on the first call it serves.
ProcessDocumentJsonFirstCallOnly(self, json_data, now) ==
    IF Get(Get(json_data, "document", EmptyDict), "pages", <<>>) = <<>>
    THEN Outcome(self, [error |-> "No pages found in document"], "none")
    ELSE Outcome(WithDimensions(self, json_data.document.pages[1]),
                 DocumentResult(json_data.document.pages, json_data.document.pages[1],
                     PageDimension(json_data.document.pages[1], "width", 1),
                     PageDimension(json_data.document.pages[1], "height", 1), now,
                     ExtractTokens(Get(json_data.document.pages[1], "tokens", <<>>),
                                   Get(json_data.document, "text", <<>>)),
                     IF self.page_width = NoneNumber
                     THEN ExtractFields(self.field_definitions,
                              ExtractTokens(Get(json_data.document.pages[1], "tokens", <<>>),
                                            Get(json_data.document, "text", <<>>)),
                              Get(json_data.document, "text", <<>>))
                     ELSE EmptyDict),
                 "none")

\* FormFieldExtractor.process_document_json
ProcessDocumentJson(self, json_data, now) ==
    IF Get(Get(json_data, "document", EmptyDict), "pages", <<>>) = <<>>
    THEN Outcome(self, [error |-> "No pages found in document"], "none")
    ELSE ProcessPage(WithDimensions(self, json_data.document.pages[1]),
                     json_data.document.pages, now,
                     Get(json_data.document, "text", <<>>),
                     ExtractTokens(Get(json_data.document.pages[1], "tokens", <<>>),
                                   Get(json_data.document, "text", <<>>)))

\* The documents an extractor is given: a document is the text and the
\* tokens of pieces in a row, on a page of a dimension.
JsonData(doc, dimension) ==
    [document |-> [text |-> TextOf(doc),
                   pages |-> <<[dimension |-> dimension, tokens |-> RawTokensOf(doc)]>>]]

NoPages == [document |-> [text |-> <<>>, pages |-> <<>>]]

PageDimensions ==
    {EmptyDict, [width |-> 600, height |-> 800],
     [width |-> 800, height |-> 600, unit |-> "mm"]}

DocPool ==
    {<<<<<<"T", "E", "L">>, 950>>, <<<<":">>, 950>>,
       <<<<"1", "2", "-", "1", "2", "-", "1", "2", "1", "2">>, 950>>>>,
     <<<<<<"k", " ", "m", "\n">>, 0>>,
       <<<<"rei", "wa", "1", "nen", "1", "gatsu", "1", "hi">>, 950>>>>}

JsonDocs == {NoPages} \cup {JsonData(doc, dimension) : doc \in DocPool,
                                                       dimension \in PageDimensions}

\* The number of calls one instance serves.
MaxCalls == 3

\* A call the instance served: its argument, the value returned and the
\* exception raised.
Served(input, r) == [input |-> input, output |-> r.result, raised |-> r.raised]

\* The call leaves the outcome r.
Serve(input, r) ==
    /\ instance' = r.self
    /\ raised' = r.raised
    /\ history' = Append(history, Served(input, r))

\* One more call of process_document_json on the extractor; the clock reads
\* the number of calls served.
FormFieldExtractor_process_document_json ==
    /\ regime = "extractor" /\ Len(history) < MaxCalls
    /\ call' = "FormFieldExtractor.process_document_json"
    /\ \E json_data \in JsonDocs :
          Serve(json_data, ProcessDocumentJson(instance, json_data, Len(history)))
    /\ UNCHANGED <<regime, flatVars, layoutVars, candVars, threads, batch>>

\* One more call of parse on the SequentialKeyParser.
RepeatTexts ==
    {None, <<"k", ":", "v">>, <<"k", "\n", "v", "\n", "m", ":", "v">>, <<"m">>}

RepeatFieldLists ==
    {<<Field("name", <<PatK>>, TRUE, TRUE), Field("title", <<PatM>>, FALSE, FALSE)>>,
     <<Field("name", <<PatM, PatK>>, TRUE, FALSE)>>}

SequentialKeyParserInit(max_value_lines) == [max_value_lines |-> max_value_lines]

SequentialKeyParser_parse_repeated ==
    /\ regime = "parser" /\ Len(history) < MaxCalls
    /\ call' = "SequentialKeyParser.parse"
    /\ \E t \in RepeatTexts, fs \in RepeatFieldLists :
          Serve([text |-> t, fields |-> fs],
                Outcome(instance, SeqParse(t, fs, instance.max_value_lines), "none"))
    /\ UNCHANGED <<regime, flatVars, layoutVars, candVars, threads, batch>>

NextRepeat ==
    \/ FormFieldExtractor_process_document_json
    \/ SequentialKeyParser_parse_repeated

-----------------------------------------------------------------------------
(* Two calls of process_document_json in progress on one extractor.  A     *)
(* thread is at a line of the method (pc) and holds the locals of its      *)
(* call; the interpreter may switch threads between any two statements and *)
(* between the two attribute reads of lines 112 and 113.                   *)

Threads == {1, 2}

\* The locals of a call that has just been entered.
Entered(json_data) ==
    [pc |-> "pages", json_data |-> json_data, width |-> NoneNumber, height |-> NoneNumber,
     result |-> EmptyDict, raised |-> "none"]

PageOf(th) == th.json_data.document.pages[1]

\* Thread t moves to line pc with the locals th.
Goto(t, th, pc) == threads' = [threads EXCEPT ![t] = [th EXCEPT !.pc = pc]]

\* The call of thread t ends with the outcome r.
Return(t, r) ==
    /\ threads' = [threads EXCEPT ![t] = [@ EXCEPT !.pc = "done", !.result = r.result,
                                                    !.raised = r.raised]]
    /\ raised' = r.raised

\* Lines 99-104: a document without pages is answered at once.
ProcessDocumentJson_pages(t) ==
    /\ regime = "threads" /\ threads[t].pc = "pages"
    /\ call' = "FormFieldExtractor.process_document_json:102"
    /\ IF Get(Get(threads[t].json_data, "document", EmptyDict), "pages", <<>>) = <<>>
       THEN Return(t, ProcessDocumentJson(instance, threads[t].json_data, 0))
       ELSE Goto(t, threads[t], "set_page_width") /\ UNCHANGED raised
    /\ UNCHANGED <<regime, flatVars, layoutVars, candVars, instance, history, batch>>

\* Line 105: self.page_width = ...
ProcessDocumentJson_set_page_width(t) ==
    /\ regime = "threads" /\ threads[t].pc = "set_page_width"
    /\ call' = "FormFieldExtractor.process_document_json:105"
    /\ instance' = WithPageWidth(instance, PageOf(threads[t]))
    /\ Goto(t, threads[t], "set_page_height")
    /\ UNCHANGED <<regime, flatVars, layoutVars, candVars, raised, history, batch>>

\* Line 106: self.page_height = ...
ProcessDocumentJson_set_page_height(t) ==
    /\ regime = "threads" /\ threads[t].pc = "set_page_height"
    /\ call' = "FormFieldExtractor.process_document_json:106"
    /\ instance' = WithPageHeight(instance, PageOf(threads[t]))
    /\ Goto(t, threads[t], "read_page_width")
    /\ UNCHANGED <<regime, flatVars, layoutVars, candVars, raised, history, batch>>

\* Line 112: "width": self.page_width
ProcessDocumentJson_read_page_width(t) ==
    /\ regime = "threads" /\ threads[t].pc = "read_page_width"
    /\ call' = "FormFieldExtractor.process_document_json:112"
    /\ Goto(t, [threads[t] EXCEPT !.width = instance.page_width], "read_page_height")
    /\ UNCHANGED <<regime, flatVars, layoutVars, candVars, raised, instance, history, batch>>

\* Line 113: "height": self.page_height
ProcessDocumentJson_read_page_height(t) ==
    /\ regime = "threads" /\ threads[t].pc = "read_page_height"
    /\ call' = "FormFieldExtractor.process_document_json:113"
    /\ Goto(t, [threads[t] EXCEPT !.height = instance.page_height], "extract")
    /\ UNCHANGED <<regime, flatVars, layoutVars, candVars, raised, instance, history, batch>>

\* Lines 114-135: the rest of the result, with the dimensions read before.
ProcessDocumentJson_extract(t) ==
    /\ regime = "threads" /\ threads[t].pc = "extract"
    /\ call' = "FormFieldExtractor.process_document_json:135"
    /\ Return(t, ProcessPage([instance EXCEPT !.page_width = threads[t].width,
                                              !.page_height = threads[t].height],
                             threads[t].json_data.document.pages, 0,
                             Get(threads[t].json_data.document, "text", <<>>),
                             ExtractTokens(Get(PageOf(threads[t]), "tokens", <<>>),
                                           Get(threads[t].json_data.document, "text", <<>>))))
    /\ UNCHANGED <<regime, flatVars, layoutVars, candVars, instance, history, batch>>

NextThreads ==
    \E t \in Threads :
        \/ ProcessDocumentJson_pages(t)
        \/ ProcessDocumentJson_set_page_width(t)
        \/ ProcessDocumentJson_set_page_height(t)
        \/ ProcessDocumentJson_read_page_width(t)
        \/ ProcessDocumentJson_read_page_height(t)
        \/ ProcessDocumentJson_extract(t)

-----------------------------------------------------------------------------
(* The flat parsers with a pattern that does not compile.  re.search       *)
(* compiles its pattern first and raises re.error for one like r"(";       *)
(* neither parser catches it.                                              *)

\* A pattern re.compile rejects.  As atoms it finds nothing, so the parse
\* computed with it is the run up to the first re.search that is given it.
Uncompilable == <<One({})>>

\* The patterns of pats that compile.
RECURSIVE CompilableOf(_)
CompilableOf(pats) ==
    IF pats = <<>> THEN <<>>
    ELSE (IF Head(pats) # Uncompilable THEN <<Head(pats)>> ELSE <<>>)
         \o CompilableOf(Tail(pats))

\* The fields with the patterns that do not compile taken out.
Compilable(fs) == [n \in 1..Len(fs) |-> [fs[n] EXCEPT !.patterns = CompilableOf(@)]]

\* The outcome of a parse: computed is the result with the uncompilable
\* patterns finding nothing, compilable the result without them.  evals
\* counts the re.search calls, so the two differ in evals exactly when
\* re.search is called with an uncompilable pattern, and that call raises.
ParseOutcome(computed, compilable) ==
    IF computed.evals > compilable.evals
    THEN Outcome(EmptyDict, NoResult, "re.error")
    ELSE Outcome(EmptyDict, computed, "none")

\* The fields of a run with one faulty field: its only pattern does not
\* compile, or it has no pattern.
FaultyPatternLists == {<<Uncompilable>>, <<>>}

MemoField(patterns, required) == Field("memo", patterns, required, FALSE)
NameField == Field("name", <<PatK>>, TRUE, TRUE)
TitleField == Field("title", <<PatM>>, FALSE, FALSE)

FaultyFieldLists ==
    UNION {{<<MemoField(ps, r)>>, <<MemoField(ps, r), NameField>>, <<NameField, MemoField(ps, r)>>,
            <<NameField, MemoField(ps, r), TitleField>>,
            <<NameField, TitleField, MemoField(ps, r)>>} :
              ps \in FaultyPatternLists, r \in BOOLEAN}

FaultyTexts ==
    {None, <<>>, <<"v">>, <<"k", ":", "v">>, <<"k", "\n", "v", "\n", "m", ":", "v">>,
     <<"m", ":", "v", "\n", "k", ":", "v">>}

\* The call leaves the outcome r.
Parsed(r) == result' = r.result /\ raised' = r.raised

SequentialKeyParser_parse_patterns ==
    /\ regime = "patterns" /\ call = "none"
    /\ call' = "SequentialKeyParser.parse"
    /\ Parsed(ParseOutcome(SeqParse(text, fields, DefaultMaxValueLines),
                           SeqParse(text, Compilable(fields), DefaultMaxValueLines)))
    /\ UNCHANGED <<regime, text, fields, layoutVars, candVars, instance, history, threads,
                   batch>>

KeyValuePairParser_parse_patterns ==
    /\ regime = "patterns" /\ call = "none"
    /\ call' = "KeyValuePairParser.parse"
    /\ Parsed(ParseOutcome(KVParse(text, fields), KVParse(text, Compilable(fields))))
    /\ UNCHANGED <<regime, text, fields, layoutVars, candVars, instance, history, threads,
                   batch>>

NextPatterns ==
    \/ SequentialKeyParser_parse_patterns
    \/ KeyValuePairParser_parse_patterns

-----------------------------------------------------------------------------
(* FormFieldExtractor._extract_fields with a faulty coordinate region or a *)
(* token without geometry.                                                 *)

\* Coordinate regions of a caller: whole, and lacking a bound.
StampArea == [x_min |-> 0, y_min |-> 100, x_max |-> 500, y_max |-> 200]

CoordinateFieldSets ==
    {DefaultCoordinateFields,
     EmptyDict,
     [stamp |-> StampArea],
     [stamp |-> [x_min |-> 0, y_min |-> 100, x_max |-> 500]],
     [stamp |-> [y_min |-> 100, x_max |-> 500, y_max |-> 200]],
     [stamp |-> StampArea, seal |-> [x_min |-> 400, x_max |-> 1000, y_max |-> 300]]}

\* The raw tokens with the geometry of token n malformed: its vertices have
\* no "y".
WithoutGeometry(raw, n) ==
    [m \in 1..Len(raw) |->
        IF m = n THEN [raw[m] EXCEPT !.normalizedVertices = <<[x |-> 100], [x |-> 300]>>]
        ELSE raw[m]]

MaxStrategyTokens == 2

StrategyPieces ==
    {<<"T", "E", "L">>, <<"1", "2", "-", "1", "2", "-", "1", "2", "1", "2">>,
     <<"rei", "wa", "1", "nen", "1", "gatsu", "1", "hi">>}

StrategyDocs == SeqsUpTo(StrategyPieces \X {950}, MaxStrategyTokens)

\* The state at line 133 of process_document_json.
StrategyInputs ==
    /\ \E doc \in StrategyDocs, n \in 0..1 :
          /\ full_text = TextOf(doc)
          /\ page_tokens = WithoutGeometry(RawTokensOf(doc), n)
          /\ tokens = ExtractTokens(WithoutGeometry(RawTokensOf(doc), n), TextOf(doc))
    /\ \E coordinate_fields \in CoordinateFieldSets :
          config = [coordinate_fields |-> coordinate_fields,
                    form_fields |-> GetDefaultFieldDefinitions.form_fields]
    /\ extracted = NoExtracted

FormFieldExtractor_extract_fields ==
    /\ regime = "strategies" /\ call = "none"
    /\ call' = "FormFieldExtractor._extract_fields"
    /\ raised' = ExtractFieldsRaised(config, tokens)
    /\ extracted' = IF ExtractFieldsRaised(config, tokens) # "none" THEN NoExtracted
                    ELSE ExtractFields(config, tokens, full_text)
    /\ UNCHANGED <<regime, flatVars, full_text, page_tokens, config, tokens, candVars,
                   instance, history, threads, batch>>

NextStrategies == FormFieldExtractor_extract_fields

-----------------------------------------------------------------------------
(* The batch loops of test_ocr_for_doc1/main.py and                        *)
(* test_document_ai/main.py.  A selected document is described by what its *)
(* processing does: it ends ("ok") or raises an exception of the named     *)
(* class at some step.                                                     *)

MaxImages == 4

ImageOutcomes == {"ok", "FileNotFoundError", "Exception"}

\* process_single_image: True unless a step raised; both except clauses
\* return False.
ProcessSingleImage(image) == image = "ok"

\* The loop variables after one more document, processed with the given
\* success, in a loop that counts successes only.
CountedSuccessOnly(b, success) ==
    [b EXCEPT !.i = @ + 1,
              !.ok = IF success THEN @ + 1 ELSE @,
              !.processed = [@ EXCEPT ![b.i + 1] = @ + 1]]

\* The loop variables after one more document: "ok += 1" or "ng += 1";
\* processed counts the times each document was handed to the processing.
Counted(b, success) ==
    [b EXCEPT !.i = @ + 1,
              !.ok = IF success THEN @ + 1 ELSE @,
              !.ng = IF success THEN @ ELSE @ + 1,
              !.processed = [@ EXCEPT ![b.i + 1] = @ + 1]]

\* The state of main when it is entered.
BatchOf(main, exists, client, image_paths) ==
    [main |-> main, exists |-> exists, client |-> client, image_paths |-> image_paths,
     pc |-> "enter", i |-> 0, ok |-> 0, ng |-> 0,
     processed |-> [n \in 1..Len(image_paths) |-> 0]]

\* Lines 104-118 of test_ocr_for_doc1/main.py and lines 83-108 of
\* test_document_ai/main.py: main raises for a missing directory, returns
\* without images (and, for Document AI, without a client), and enters the
\* loop otherwise.
Entered_main(b) ==
    IF ~b.exists THEN [b EXCEPT !.pc = "raised"]
    ELSE IF b.image_paths = <<>> THEN [b EXCEPT !.pc = "returned"]
    ELSE IF b.main = "test_document_ai" /\ ~b.client THEN [b EXCEPT !.pc = "returned"]
    ELSE [b EXCEPT !.pc = "loop"]

main_enter ==
    /\ regime = "batch" /\ batch.pc = "enter"
    /\ call' = "main"
    /\ batch' = Entered_main(batch)
    /\ raised' = IF batch.exists THEN "none" ELSE "FileNotFoundError"
    /\ UNCHANGED <<regime, flatVars, layoutVars, candVars, instance, history, threads>>

\* One iteration of the loop of test_ocr_for_doc1/main.py (lines 123-132).
main_ocr_for_doc1_iteration ==
    /\ regime = "batch" /\ batch.main = "test_ocr_for_doc1"
    /\ batch.pc = "loop" /\ batch.i < Len(batch.image_paths)
    /\ call' = "process_single_image"
    /\ batch' = Counted(batch, ProcessSingleImage(batch.image_paths[batch.i + 1]))
    /\ UNCHANGED <<regime, flatVars, layoutVars, candVars, raised, instance, history,
                   threads>>

\* One iteration of the loop of test_document_ai/main.py (lines 110-151):
\* "ok += 1" ends the try block, "ng += 1" is the except clause.
main_document_ai_iteration ==
    /\ regime = "batch" /\ batch.main = "test_document_ai"
    /\ batch.pc = "loop" /\ batch.i < Len(batch.image_paths)
    /\ call' = "process_document_with_form_parser"
    /\ batch' = Counted(batch, batch.image_paths[batch.i + 1] = "ok")
    /\ UNCHANGED <<regime, flatVars, layoutVars, candVars, raised, instance, history,
                   threads>>

\* The loop is over: the totals are printed (line 134, line 153).
main_report ==
    /\ regime = "batch" /\ batch.pc = "loop" /\ batch.i = Len(batch.image_paths)
    /\ call' = "main:report"
    /\ batch' = [batch EXCEPT !.pc = "done"]
    /\ UNCHANGED <<regime, flatVars, layoutVars, candVars, raised, instance, history,
                   threads>>

NextBatch ==
    \/ main_enter
    \/ main_ocr_for_doc1_iteration
    \/ main_document_ai_iteration
    \/ main_report

-----------------------------------------------------------------------------
(* Construction: DataParser(strategy, fields), DataParser.set_fields and   *)
(* FormFieldExtractor(field_definitions), followed by a run.               *)

\* None where a list of fields is expected (the argument left out).
NoneFields == <<NoneDict>>

IsNoneFields(fs) == Len(fs) = 1 /\ IsNone(fs[1])

\* DataParser._default_fields: of its five fields the model keeps the date
\* field, the one with a pattern that characters of the model can match
\* (r"\d{4}[年/.-]\d{1,2}[月/.-]\d{1,2}"); "tsuke", "saku" and "sei" stand for
\* the other kanji of its keys.
DefaultFields ==
    <<Field("date",
            <<<<One({"hi"}), One({"tsuke"}), Star(KeySeparators)>>,
              <<One({"saku"}), One({"sei"}), One({"hi"}), Star(KeySeparators)>>,
              <<Rep(Digits, 4, 4), One({"nen", "/", ".", "-"}), Rep(Digits, 1, 2),
                One({"gatsu", "/", ".", "-"}), Rep(Digits, 1, 2)>>>>,
            FALSE, FALSE)>>

\* "fields or self._default_fields()"
FieldsOrDefault(fs) == IF IsNoneFields(fs) \/ fs = <<>> THEN DefaultFields ELSE fs

\* DataParser.__init__; "None" is the strategy argument left out.
DataParserInit(strategy, fs) ==
    [strategy |-> IF strategy = "None" THEN "SequentialKeyParser" ELSE strategy,
     fields |-> FieldsOrDefault(fs)]

\* The response of Document AI for a text and its raw tokens.
JsonOf(ft, raw, dimension) ==
    [document |-> [text |-> ft, pages |-> <<[dimension |-> dimension, tokens |-> raw]>>]]

SuppliedFieldLists ==
    {NoneFields, <<>>, <<Field("name", <<PatK>>, TRUE, FALSE)>>,
     <<Field("name", <<PatK>>, FALSE, TRUE), Field("title", <<PatM>>, TRUE, FALSE)>>}

SuppliedDefinitions ==
    {NoneDict, EmptyDict,
     [form_fields |-> [memo |-> FormFieldPool["memo"]]],
     [coordinate_fields |-> [stamp |-> StampArea],
      form_fields |-> [phone |-> FormFieldPool["phone"]]]}

ConstructTexts ==
    {<<>>, <<"k", ":", "v">>, <<"1", "2", "1", "2", "-", "1", "-", "1", ":", "v">>,
     <<"m", ":", "v", "\n", "1", "2", "1", "2", ".", "1", ".", "2", " ", "k">>}

DataParser_init ==
    /\ regime = "construct" /\ call = "none"
    /\ call' = "DataParser.__init__"
    /\ \E strategy \in Strategies \cup {"None"}, fs \in SuppliedFieldLists :
          /\ fields' = fs
          /\ instance' = DataParserInit(strategy, fs)
    /\ UNCHANGED <<regime, text, result, layoutVars, candVars, raised, history, threads,
                   batch>>

DataParser_set_fields ==
    /\ regime = "construct" /\ call = "DataParser.__init__"
    /\ call' = "DataParser.set_fields"
    /\ \E fs \in SuppliedFieldLists \ {NoneFields} :
          /\ fields' = fs
          /\ instance' = [instance EXCEPT !.fields = fs]
    /\ UNCHANGED <<regime, text, result, layoutVars, candVars, raised, history, threads,
                   batch>>

DataParser_parse_built ==
    /\ regime = "construct" /\ call \in {"DataParser.__init__", "DataParser.set_fields"}
    /\ call' = "DataParser.parse"
    /\ result' = DataParse(instance.strategy, text, instance.fields)
    /\ UNCHANGED <<regime, text, fields, layoutVars, candVars, runVars>>

FormFieldExtractor_init ==
    /\ regime = "construct" /\ call = "none"
    /\ call' = "FormFieldExtractor.__init__"
    /\ \E field_definitions \in SuppliedDefinitions :
          /\ config' = field_definitions
          /\ instance' = FormFieldExtractorInit(field_definitions)
    /\ UNCHANGED <<regime, flatVars, full_text, page_tokens, tokens, extracted, candVars,
                   raised, history, threads, batch>>

\* The call leaves the outcome r.
Processed(r) ==
    /\ instance' = r.self
    /\ raised' = r.raised
    /\ extracted' = Get(r.result, "extracted_fields", NoExtracted)
    /\ tokens' = Get(r.result, "raw_text_elements", <<>>)

FormFieldExtractor_process_built ==
    /\ regime = "construct" /\ call = "FormFieldExtractor.__init__"
    /\ call' = "FormFieldExtractor.process_document_json"
    /\ Processed(ProcessDocumentJson(instance, JsonOf(full_text, page_tokens, EmptyDict), 0))
    /\ UNCHANGED <<regime, flatVars, full_text, page_tokens, config, candVars, history,
                   threads, batch>>

NextConstruct ==
    \/ DataParser_init
    \/ DataParser_set_fields
    \/ DataParser_parse_built
    \/ FormFieldExtractor_init
    \/ FormFieldExtractor_process_built

-----------------------------------------------------------------------------
(* The search around a keyword token: the two call sites of                *)
(* _extract_field_value_from_context in _extract_single_field.             *)

\* Token texts of a line of a form: the label of the phone field, a
\* separator no validator of the field accepts, and a phone number, which
\* holds the context keyword of the field.
ContextPieces ==
    {<<"T", "E", "L">>, <<":">>, <<"1", "2", "-", "1", "2", "-", "1", "2", "1", "2">>}

ContextConfidences == {950}

MaxContextTokens == 7

ContextDocs == SeqsUpTo(ContextPieces \X ContextConfidences, MaxContextTokens)

ContextInputs ==
    /\ \E doc \in ContextDocs :
          /\ full_text = TextOf(doc)
          /\ page_tokens = RawTokensOf(doc)
          /\ tokens = ExtractTokens(RawTokensOf(doc), TextOf(doc))
    /\ config = [form_fields |-> [phone |-> FormFieldPool.phone]]
    /\ extracted = NoExtracted

\* The call and what it returned.
ContextCall(keyword_idx, reverse_search, field_value) ==
    /\ history' = <<[keyword_idx |-> keyword_idx, reverse_search |-> reverse_search]>>
    /\ aggregated' = field_value

\* Lines 310-318: token i holds a keyword of the field.
FormFieldExtractor_extract_field_value_after_keyword ==
    /\ regime = "context" /\ call = "none"
    /\ call' = "FormFieldExtractor._extract_field_value_from_context"
    /\ \E f \in DOMAIN config.form_fields, i \in 0..(Len(tokens) - 1) :
          /\ \E k \in 1..Len(config.form_fields[f].keywords) :
                Contains(tokens[i + 1].text, config.form_fields[f].keywords[k])
          /\ ContextCall(i, FALSE,
                 ExtractFieldValueFromContext(tokens, i, config.form_fields[f].field_type,
                                              config.form_fields[f].context_keywords, FALSE))
    /\ UNCHANGED <<regime, flatVars, layoutVars, found_values, unique_values,
                   raised, instance, threads, batch>>

\* Lines 329-335: token i holds a context keyword of the field.
FormFieldExtractor_extract_field_value_before_context_keyword ==
    /\ regime = "context" /\ call = "none"
    /\ call' = "FormFieldExtractor._extract_field_value_from_context"
    /\ \E f \in DOMAIN config.form_fields, i \in 0..(Len(tokens) - 1) :
          /\ \E k \in 1..Len(config.form_fields[f].context_keywords) :
                Contains(tokens[i + 1].text, config.form_fields[f].context_keywords[k])
          /\ ContextCall(i, TRUE,
                 ExtractFieldValueFromContext(tokens, i, config.form_fields[f].field_type,
                                              <<>>, TRUE))
    /\ UNCHANGED <<regime, flatVars, layoutVars, found_values, unique_values,
                   raised, instance, threads, batch>>

NextContext ==
    \/ FormFieldExtractor_extract_field_value_after_keyword
    \/ FormFieldExtractor_extract_field_value_before_context_keyword

-----------------------------------------------------------------------------
(* The box of a match: the call of _find_coordinates_for_text_span in      *)
(* _extract_field_by_patterns.                                             *)

\* Token texts of a line with a phone number, and whether the token has a
\* bounding polygon.
SpanPieces ==
    {<<"T", "E", "L">>, <<":">>, <<"1", "2", "-", "1", "2", "-", "1", "2", "1", "2">>}

MaxSpanTokens == 3

SpanDocs == SeqsUpTo(SpanPieces \X BOOLEAN, MaxSpanTokens)

\* The raw tokens of a line: token n covers piece n; a token without a
\* polygon has no vertices.
SpanRawTokensOf(doc) ==
    [n \in 1..Len(doc) |->
        [textSegments |-> <<SegmentOf(Len(TextOf(SubSeq(doc, 1, n - 1))),
                                      Len(TextOf(SubSeq(doc, 1, n))))>>,
         confidence |-> 950,
         normalizedVertices |-> IF doc[n][2] THEN BoxAt(n) ELSE <<>>]]

SpanInputs ==
    /\ \E doc \in SpanDocs :
          /\ full_text = TextOf(doc)
          /\ page_tokens = SpanRawTokensOf(doc)
          /\ tokens = ExtractTokenInfo(SpanRawTokensOf(doc), TextOf(doc))
    /\ config = SmartRegistry
    /\ extracted = NoExtracted

\* Lines 204-209: the box of one match of one pattern of a field.
SmartFieldExtractor_find_coordinates_for_text_span ==
    /\ regime = "span" /\ call = "none"
    /\ call' = "SmartFieldExtractor._find_coordinates_for_text_span"
    /\ \E f \in DOMAIN config :
          \E k \in 1..Len(config[f].patterns) :
              \E n \in 1..Len(FindIter(config[f].patterns[k].atoms, full_text, TRUE)) :
                  LET match == FindIter(config[f].patterns[k].atoms, full_text, TRUE)[n]
                  IN  /\ history' = <<[start |-> match.start, end |-> MatchEnd(match)]>>
                      /\ aggregated' = FindCoordinatesForTextSpan(tokens, match.start,
                                                                  MatchEnd(match))
    /\ UNCHANGED <<regime, flatVars, layoutVars, found_values, unique_values,
                   raised, instance, threads, batch>>

NextSpan == SmartFieldExtractor_find_coordinates_for_text_span

-----------------------------------------------------------------------------
(* The coordinate regions of a caller, each with its four bounds.          *)

LeftArea == [x_min |-> 0, y_min |-> 100, x_max |-> 240, y_max |-> 200]
TopArea == [x_min |-> 0, y_min |-> 0, x_max |-> 1000, y_max |-> 100]
MidArea == [x_min |-> 200, y_min |-> 0, x_max |-> 300, y_max |-> 1000]

RegionSets ==
    {DefaultCoordinateFields,
     EmptyDict,
     [left |-> LeftArea, top |-> TopArea],
     [mid |-> MidArea, left |-> LeftArea]}

\* The tokens of a line, with and without geometry, and the regions of the
\* extractor.
RegionInputs ==
    /\ \E doc \in SpanDocs :
          /\ full_text = TextOf(doc)
          /\ page_tokens = SpanRawTokensOf(doc)
          /\ tokens = ExtractTokens(SpanRawTokensOf(doc), TextOf(doc))
    /\ \E coordinate_fields \in RegionSets :
          config = [coordinate_fields |-> coordinate_fields]
    /\ extracted = NoExtracted

FormFieldExtractor_extract_coordinate_based_fields ==
    /\ regime = "regions" /\ call = "none"
    /\ call' = "FormFieldExtractor._extract_coordinate_based_fields"
    /\ extracted' = ExtractCoordinateBasedFields(Get(config, "coordinate_fields", EmptyDict),
                                                 tokens)
    /\ UNCHANGED <<regime, flatVars, full_text, page_tokens, config, tokens, candVars,
                   runVars>>

NextRegions == FormFieldExtractor_extract_coordinate_based_fields

-----------------------------------------------------------------------------
(* The phone validators applied to a candidate string.                     *)

CandidateChars == {"1", "-", "k", " "}

MaxCandidateLen == 8

CandidateStrings == SeqsUpTo(CandidateChars, MaxCandidateLen)

\* The verdict of a validator on text, kept with the field type.
Verdict(field_type, valid) ==
    aggregated' = [field_type |-> field_type, valid |-> valid]

FormFieldExtractor_is_valid_field_value ==
    /\ regime = "validator" /\ call = "none"
    /\ call' = "FormFieldExtractor._is_valid_field_value"
    /\ Verdict("phone", FormIsValidFieldValue(text, "phone", <<>>))
    /\ UNCHANGED <<regime, flatVars, layoutVars, found_values, unique_values, runVars>>

SmartFieldExtractor_is_valid_field_value ==
    /\ regime = "validator" /\ call = "none"
    /\ call' = "SmartFieldExtractor._is_valid_field_value"
    /\ Verdict("phone", IsValidFieldValue(text, "phone"))
    /\ UNCHANGED <<regime, flatVars, layoutVars, found_values, unique_values, runVars>>

NextValidator ==
    \/ FormFieldExtractor_is_valid_field_value
    \/ SmartFieldExtractor_is_valid_field_value

-----------------------------------------------------------------------------
(* SequentialKeyParser built with a limit of the caller.                   *)

\* Lines without inner white space: a key, a value, a key with a value,
\* the key of the second field with a value, and an empty line.
LimitLines == {<<"k">>, <<"v">>, <<"k", ":", "v">>, <<"m", ":", "v">>, <<>>}

MaxLimitLines == 4

LimitTexts == {JoinNL(ls) : ls \in SeqsUpTo(LimitLines, MaxLimitLines) \ {<<>>}}

LimitFieldLists ==
    {<<Field("name", <<PatK>>, TRUE, ml)>> : ml \in BOOLEAN}
    \cup {<<Field("name", <<PatK>>, TRUE, TRUE), Field("title", <<PatM>>, FALSE, TRUE)>>}

\* The limits a caller passes as max_value_lines.
LimitValues == {1, 2}

SequentialKeyParser_init ==
    /\ regime = "limit" /\ call = "none"
    /\ call' = "SequentialKeyParser.__init__"
    /\ \E n \in LimitValues : instance' = SequentialKeyParserInit(n)
    /\ UNCHANGED <<regime, flatVars, layoutVars, candVars, raised, history, threads, batch>>

SequentialKeyParser_parse_limited ==
    /\ regime = "limit" /\ call = "SequentialKeyParser.__init__"
    /\ call' = "SequentialKeyParser.parse"
    /\ result' = SeqParse(text, fields, instance.max_value_lines)
    /\ UNCHANGED <<regime, text, fields, layoutVars, candVars, runVars>>

NextLimit ==
    \/ SequentialKeyParser_init
    \/ SequentialKeyParser_parse_limited

-----------------------------------------------------------------------------
(* The final structured output: generate_final_structured_json applied to  *)
(* the result of process_document_json.  In this part confidences are in   *)
(* ten-thousandths, so that rounding to three decimals changes them.  The  *)
(* keys of the output are written value, confidence, field_type, method,   *)
(* coordinates, candidate_count and alternates for the Japanese keys of    *)
(* lines 544-556, and document_info, fields, pattern_results and           *)
(* statistics for those of lines 576-589.                                  *)

\* round(confidence, 3) of a confidence in ten-thousandths, in thousandths
\* (no confidence of the model ends in 5).
Round3(confidence) == (confidence + 5) \div 10

\* Lines 552-559: the candidates other than best_match, in found order.
RECURSIVE OtherCandidates(_, _)
OtherCandidates(values, best_match) ==
    IF values = <<>> THEN <<>>
    ELSE (IF Head(values) # best_match
          THEN <<[value |-> Head(values).value,
                  confidence |-> Round3(Head(values).confidence)]>>
          ELSE <<>>)
         \o OtherCandidates(Tail(values), best_match)

\* Lines 543-559: the entry of one field.
FinalField(field_info) ==
    [value |-> field_info.best_match.value,
     confidence |-> Round3(field_info.best_match.confidence),
     field_type |-> field_info.field_type,
     method |-> Get(field_info.best_match, "extraction_method", "unknown"),
     coordinates |-> Get(field_info.best_match, "coordinates", EmptyDict),
     candidate_count |-> field_info.found_count]
    @@ (IF field_info.found_count > 1
        THEN [alternates |-> OtherCandidates(field_info.values, field_info.best_match)]
        ELSE EmptyDict)

\* Lines 539-559: final_fields.
FinalFields(structured_fields) ==
    [f \in {g \in DOMAIN structured_fields :
               /\ ~Empty(structured_fields[g])
               /\ ~Empty(Get(structured_fields[g], "best_match", EmptyDict))} |->
        FinalField(structured_fields[f])]

\* Lines 566-573: the first five items of one pattern key.
PatternItems(pattern_data) ==
    [n \in 1..Min(5, Len(pattern_data)) |->
        [value |-> Get(pattern_data[n], "matched_value", Get(pattern_data[n], "text", <<>>)),
         confidence |-> Round3(pattern_data[n].confidence),
         coordinates |-> Get(pattern_data[n], "coordinates", EmptyDict)]]

\* Lines 562-573: pattern_fields.
PatternFields(extracted_fields) ==
    [k \in {j \in {"dates", "numbers", "phone_numbers"} :
               Get(extracted_fields, j, <<>>) # <<>>} |->
        PatternItems(extracted_fields[k])]

\* Lines 575-589 for final_fields and pattern_fields.
FinalJson(document_info, final_fields, pattern_fields) ==
    [document_info |->
        [processed_at |-> Get(document_info, "processed_at", <<>>),
         page_count |-> Get(document_info, "page_count", 0),
         page_dimensions |-> Get(document_info, "page_dimensions", EmptyDict)],
     fields |-> final_fields,
     pattern_results |-> pattern_fields,
     statistics |->
        [structured_fields |-> Cardinality(DOMAIN final_fields),
         dates |-> Len(Get(pattern_fields, "dates", <<>>)),
         numbers |-> Len(Get(pattern_fields, "numbers", <<>>)),
         phone_numbers |-> Len(Get(pattern_fields, "phone_numbers", <<>>))]]

\* FormFieldExtractor.generate_final_structured_json
GenerateFinalStructuredJson(extracted_result) ==
    FinalJson(Get(extracted_result, "document_info", EmptyDict),
              FinalFields(Get(Get(extracted_result, "extracted_fields", EmptyDict),
                              "structured_fields", EmptyDict)),
              PatternFields(Get(extracted_result, "extracted_fields", EmptyDict)))

\* Token texts: three names that hold the keyword of the name field, the
\* label of the phone field and a phone number.
FinalPieces ==
    {<<"shi", "mei">>, <<"shi", "mei", "ka">>, <<"shi", "mei", "na">>,
     <<"T", "E", "L">>, <<"1", "2", "-", "1", "2", "-", "1", "2", "1", "2">>}

\* Confidences in ten-thousandths.
FinalConfidences == {9504, 9496, 0}

MaxFinalTokens == 3

FinalDocs == SeqsUpTo(FinalPieces \X FinalConfidences, MaxFinalTokens)

FinalInputs ==
    /\ \E doc \in FinalDocs :
          /\ full_text = TextOf(doc)
          /\ page_tokens = RawTokensOf(doc)
    /\ config = EmptyDict /\ tokens = <<>> /\ extracted = NoExtracted

\* process_document_json for the document of one page; the value returned
\* is kept.
FormFieldExtractor_process_document_json_page ==
    /\ regime = "final" /\ call = "none"
    /\ call' = "FormFieldExtractor.process_document_json"
    /\ LET r == ProcessDocumentJson(instance,
                    [document |-> [text |-> full_text,
                                   pages |-> <<[tokens |-> page_tokens]>>]], "now")
       IN  /\ instance' = r.self
           /\ raised' = r.raised
           /\ extracted' = r.result
    /\ UNCHANGED <<regime, flatVars, full_text, page_tokens, config, tokens, candVars,
                   history, threads, batch>>

FormFieldExtractor_generate_final_structured_json ==
    /\ regime = "final" /\ call = "FormFieldExtractor.process_document_json"
    /\ call' = "FormFieldExtractor.generate_final_structured_json"
    /\ aggregated' = GenerateFinalStructuredJson(extracted)
    /\ UNCHANGED <<regime, flatVars, layoutVars, found_values, unique_values, runVars>>

NextFinal ==
    \/ FormFieldExtractor_process_document_json_page
    \/ FormFieldExtractor_generate_final_structured_json

-----------------------------------------------------------------------------
(* Boxes of polygons whose vertices may omit a coordinate (Document AI     *)
(* leaves a coordinate of 0 out of the JSON).                              *)

VertexValues == {100, 300}

Vertices == Dicts({"x", "y"}, VertexValues)

MaxVertices == 2
MaxBoxTokens == 2

VertexLists == SeqsUpTo(Vertices, MaxVertices)

\* The raw tokens of a text of one character per token, token n with the
\* polygon polys[n].
BoxRawTokensOf(polys) ==
    [n \in 1..Len(polys) |->
        [textSegments |-> <<SegmentOf(n - 1, n)>>,
         confidence |-> 950,
         normalizedVertices |-> polys[n]]]

BoxInputs ==
    /\ \E polys \in SeqsUpTo(VertexLists, MaxBoxTokens) \ {<<>>} :
          /\ full_text = [n \in 1..Len(polys) |-> "k"]
          /\ page_tokens = BoxRawTokensOf(polys)
    /\ config = EmptyDict /\ tokens = <<>> /\ extracted = NoExtracted

\* The vertices a box was made of, and the box.
Boxed(vertices, box) ==
    /\ history' = <<[vertices |-> vertices]>>
    /\ aggregated' = box

\* The vertices of the tokens of toks, in a row.
RECURSIVE VerticesOf(_)
VerticesOf(raw) ==
    IF raw = <<>> THEN <<>>
    ELSE Get(Head(raw), "normalizedVertices", <<>>) \o VerticesOf(Tail(raw))

FormFieldExtractor_get_normalized_coordinates ==
    /\ regime = "boxes" /\ call = "none"
    /\ call' = "FormFieldExtractor._get_normalized_coordinates"
    /\ \E n \in 1..Len(page_tokens) :
          Boxed(Get(page_tokens[n], "normalizedVertices", <<>>),
                GetNormalizedCoordinates(Get(page_tokens[n], "normalizedVertices", <<>>),
                                         TRUE))
    /\ UNCHANGED <<regime, flatVars, layoutVars, found_values, unique_values,
                   raised, instance, threads, batch>>

SmartFieldExtractor_get_normalized_coordinates ==
    /\ regime = "boxes" /\ call = "none"
    /\ call' = "SmartFieldExtractor._get_normalized_coordinates"
    /\ \E n \in 1..Len(page_tokens) :
          Boxed(Get(page_tokens[n], "normalizedVertices", <<>>),
                GetNormalizedCoordinates(Get(page_tokens[n], "normalizedVertices", <<>>),
                                         FALSE))
    /\ UNCHANGED <<regime, flatVars, layoutVars, found_values, unique_values,
                   raised, instance, threads, batch>>

\* The box of a match of the whole text: every token overlaps it.
SmartFieldExtractor_find_coordinates_for_whole_text ==
    /\ regime = "boxes" /\ call = "none"
    /\ call' = "SmartFieldExtractor._find_coordinates_for_text_span"
    /\ Boxed(VerticesOf(page_tokens),
             FindCoordinatesForTextSpan(ExtractTokenInfo(page_tokens, full_text),
                                        0, Len(full_text)))
    /\ UNCHANGED <<regime, flatVars, layoutVars, found_values, unique_values,
                   raised, instance, threads, batch>>

NextBoxes ==
    \/ FormFieldExtractor_get_normalized_coordinates
    \/ SmartFieldExtractor_get_normalized_coordinates
    \/ SmartFieldExtractor_find_coordinates_for_whole_text

-----------------------------------------------------------------------------
(* Specifications.                                                         *)

InitFlat == regime = "flat" /\ call = "none" /\ FlatInputs /\ LayoutIdle /\ CandIdle /\ RunIdle

\* The flat-text parsers applied to every text and field list of the bounds.
SpecFlat == InitFlat /\ [][NextFlat]_vars

InitNorm == regime = "layout" /\ call = "none" /\ FlatIdle /\ NormInputs /\ CandIdle /\ RunIdle

\* The two token normalizers applied to every raw page of the bounds.
SpecNorm == InitNorm /\ [][NextNorm]_vars

InitAgg == regime = "candidates" /\ call = "none" /\ FlatIdle /\ LayoutIdle /\ CandInputs /\ RunIdle

\* The aggregation applied to every candidate list of the bounds.
SpecAgg == InitAgg /\ [][NextAgg]_vars

InitSmart == regime = "smart" /\ call = "none" /\ FlatIdle /\ SmartInputs /\ CandIdle /\ RunIdle

\* The smart extractor applied to every document of the bounds.
SpecSmart == InitSmart /\ [][NextSmart]_vars

InitForm == regime = "form" /\ call = "none" /\ FlatIdle /\ FormInputs /\ CandIdle /\ RunIdle

\* The form extractor applied to every document and field definition of the
\* bounds.
SpecForm == InitForm /\ [][NextForm]_vars

\* The definitions an extractor is built with: none, or those of a caller.
CallerDefinitions ==
    {NoneDict,
     [coordinate_fields |-> [stamp |-> [x_min |-> 0, y_min |-> 100, x_max |-> 500,
                                        y_max |-> 200]],
      form_fields |-> [phone |-> FormFieldPool["phone"], memo |-> FormFieldPool["memo"]]]}

InitRepeat ==
    /\ call = "none" /\ FlatIdle /\ LayoutIdle /\ CandIdle
    /\ raised = "none" /\ history = <<>> /\ threads = <<>> /\ batch = EmptyDict
    /\ \/ /\ regime = "extractor"
          /\ \E field_definitions \in CallerDefinitions :
                instance = FormFieldExtractorInit(field_definitions)
       \/ /\ regime = "parser"
          /\ instance = SequentialKeyParserInit(DefaultMaxValueLines)

\* One extractor, or one parser, serving up to MaxCalls calls in a row.
SpecRepeat == InitRepeat /\ [][NextRepeat]_vars

InitThreads ==
    /\ regime = "threads" /\ call = "none" /\ FlatIdle /\ LayoutIdle /\ CandIdle
    /\ raised = "none" /\ history = <<>> /\ batch = EmptyDict
    /\ instance = FormFieldExtractorInit(NoneDict)
    /\ \E d1, d2 \in JsonDocs :
          /\ d1 # d2
          /\ threads = [t \in Threads |-> Entered(IF t = 1 THEN d1 ELSE d2)]

\* Two threads call process_document_json of one extractor for different
\* documents; every interleaving of their statements is a behaviour.
SpecThreads == InitThreads /\ [][NextThreads]_vars

InitPatterns ==
    /\ regime = "patterns" /\ call = "none" /\ LayoutIdle /\ CandIdle /\ RunIdle
    /\ text \in FaultyTexts /\ fields \in FaultyFieldLists /\ result = NoResult

\* The flat parsers applied to field lists with one faulty field.
SpecPatterns == InitPatterns /\ [][NextPatterns]_vars

InitStrategies ==
    /\ regime = "strategies" /\ call = "none" /\ FlatIdle /\ StrategyInputs /\ CandIdle
    /\ RunIdle

\* _extract_fields applied to every document and coordinate region set of
\* the bounds.
SpecStrategies == InitStrategies /\ [][NextStrategies]_vars

InitBatch ==
    /\ regime = "batch" /\ call = "none" /\ FlatIdle /\ LayoutIdle /\ CandIdle
    /\ raised = "none" /\ instance = EmptyDict /\ history = <<>> /\ threads = <<>>
    /\ \E main \in {"test_ocr_for_doc1", "test_document_ai"}, exists \in BOOLEAN,
          client \in BOOLEAN, image_paths \in SeqsUpTo(ImageOutcomes, MaxImages) :
          batch = BatchOf(main, exists, client, image_paths)

\* main of either program over every list of up to MaxImages documents.
SpecBatch == InitBatch /\ [][NextBatch]_vars

\* main is sequential code of a running process: it takes its next step.
SpecBatchFair == SpecBatch /\ WF_vars(NextBatch)

InitConstruct ==
    /\ regime = "construct" /\ call = "none" /\ CandIdle /\ RunIdle
    /\ text \in ConstructTexts /\ fields = <<>> /\ result = NoResult
    /\ \E doc \in StrategyDocs :
          full_text = TextOf(doc) /\ page_tokens = RawTokensOf(doc)
    /\ config = EmptyDict /\ tokens = <<>> /\ extracted = NoExtracted

\* A parser or an extractor is built with the definitions of a caller and
\* then run.
SpecConstruct == InitConstruct /\ [][NextConstruct]_vars

InitContext ==
    /\ regime = "context" /\ call = "none" /\ FlatIdle /\ ContextInputs
    /\ CandIdle /\ RunIdle

\* One search around a keyword token of a line of up to MaxContextTokens
\* tokens.
SpecContext == InitContext /\ [][NextContext]_vars

InitSpan ==
    /\ regime = "span" /\ call = "none" /\ FlatIdle /\ SpanInputs
    /\ CandIdle /\ RunIdle

\* The box of one match in a line of up to MaxSpanTokens tokens.
SpecSpan == InitSpan /\ [][NextSpan]_vars

InitRegions ==
    /\ regime = "regions" /\ call = "none" /\ FlatIdle /\ RegionInputs
    /\ CandIdle /\ RunIdle

\* The coordinate strategy on a line of up to MaxSpanTokens tokens.
SpecRegions == InitRegions /\ [][NextRegions]_vars

InitValidator ==
    /\ regime = "validator" /\ call = "none" /\ LayoutIdle /\ CandIdle /\ RunIdle
    /\ text \in CandidateStrings /\ fields = <<>> /\ result = NoResult

\* A phone validator applied to a string of up to MaxCandidateLen characters.
SpecValidator == InitValidator /\ [][NextValidator]_vars

InitLimit ==
    /\ regime = "limit" /\ call = "none" /\ LayoutIdle /\ CandIdle /\ RunIdle
    /\ text \in LimitTexts /\ fields \in LimitFieldLists /\ result = NoResult

\* A parser is built with a limit and parses a text of up to MaxLimitLines
\* lines.
SpecLimit == InitLimit /\ [][NextLimit]_vars

InitFinal ==
    /\ regime = "final" /\ call = "none" /\ FlatIdle /\ FinalInputs /\ CandIdle
    /\ raised = "none" /\ history = <<>> /\ threads = <<>> /\ batch = EmptyDict
    /\ instance = FormFieldExtractorInit(NoneDict)

\* An extractor with the default definitions processes a document of up to
\* MaxFinalTokens tokens, and the final structured output is made of the
\* result.
SpecFinal == InitFinal /\ [][NextFinal]_vars

InitBoxes ==
    /\ regime = "boxes" /\ call = "none" /\ FlatIdle /\ BoxInputs /\ CandIdle /\ RunIdle

\* A normalizer, or the union of the boxes of a match, on up to
\* MaxBoxTokens tokens with polygons of up to MaxVertices vertices.
SpecBoxes == InitBoxes /\ [][NextBoxes]_vars

InitFields == InitFlat \/ InitForm

NextFields == NextFlat \/ NextForm

\* Every extractor that reports fields by key: the flat parsers and the form
\* extractor.
SpecFields == InitFields /\ [][NextFields]_vars

-----------------------------------------------------------------------------
(* Properties.                                                             *)

\* The indices of fs, in increasing order, as a sequence.
RECURSIVE SortedIndices(_)
SortedIndices(S) ==
    IF S = {} THEN <<>>
    ELSE LET m == CHOOSE m \in S : \A n \in S : m <= n
         IN  <<m>> \o SortedIndices(S \ {m})

\* The keys of the fields of fs at the indices S, in field-list order.
KeysAt(fs, S) == LET ix == SortedIndices(S) IN [n \in 1..Len(ix) |-> fs[ix[n]].key]

FlatParserRan == call \in {"SequentialKeyParser.parse", "KeyValuePairParser.parse"}

TextIsEmpty == text = None \/ text = <<>>

\* C1: after SequentialKeyParser.parse or KeyValuePairParser.parse of a
\* non-empty text, missing_fields is exactly the list, in field-list order,
\* of the keys of the fields with required = true whose key is not in data.
C1_MissingIsRequiredNotInData ==
    (FlatParserRan /\ ~TextIsEmpty) =>
        result.missing_fields =
            KeysAt(fields, {i \in 1..Len(fields) :
                               fields[i].required /\ fields[i].key \notin DOMAIN result.data})

\* A parse of a non-empty text that found one field and missed a required one.
C1_Witness ==
    /\ FlatParserRan /\ ~TextIsEmpty
    /\ result.missing_fields # <<>>
    /\ DOMAIN result.data # {}

\* C2: for an empty or absent text, DataParser.parse, SequentialKeyParser.parse
\* and KeyValuePairParser.parse return data = {}, missing_fields = the keys of
\* all required fields, the one empty-input warning, and evaluate no pattern.
C2_EmptyInput ==
    (call # "none" /\ regime = "flat" /\ TextIsEmpty) =>
        /\ DOMAIN result.data = {}
        /\ result.missing_fields = KeysAt(fields, {i \in 1..Len(fields) : fields[i].required})
        /\ result.warnings = <<<<"empty_input">>>>
        /\ result.evals = 0

\* DataParser.parse ran on an empty string with a required field that has a
\* pattern to evaluate.
C2_Witness ==
    /\ call = "DataParser.parse" /\ text = <<>>
    /\ result.missing_fields # <<>>
    /\ \E i \in 1..Len(fields) : fields[i].required /\ fields[i].patterns # <<>>

StructuredRan == call = "FormFieldExtractor._extract_structured_form_fields"

\* The keys of the field definitions given to the flat parser.
FieldKeys == {fields[n].key : n \in 1..Len(fields)}

\* C3: every key of the data a flat parser returns is the key of a field
\* passed to it, and every key under structured_fields is a key of the form
\* field definitions of the run.
C3_OutputKeysAreDefined ==
    /\ FlatParserRan => DOMAIN result.data \subseteq FieldKeys
    /\ StructuredRan =>
           /\ DOMAIN extracted = {"structured_fields"}
           /\ DOMAIN extracted.structured_fields \subseteq DOMAIN config.form_fields

\* The structured fields of a run with two field definitions, of which one
\* was found and one was not.
C3_Witness ==
    /\ StructuredRan
    /\ Cardinality(DOMAIN config.form_fields) = 2
    /\ Cardinality(DOMAIN extracted.structured_fields) = 1

NormalizerRan ==
    call \in {"FormFieldExtractor._extract_tokens", "SmartFieldExtractor._extract_token_info"}

\* The span and the position in the page a normalized token records.
TokStart(t) == IF "text_indices" \in DOMAIN t THEN t.text_indices.start ELSE t.start_pos
TokEnd(t) == IF "text_indices" \in DOMAIN t THEN t.text_indices.end ELSE t.end_pos
TokId(t) == IF "token_id" \in DOMAIN t THEN t.token_id ELSE t.index

\* C4: every token the normalizers emit records a span with
\* 0 <= start <= end <= len(full_text), and its text is full_text[start:end].
C4_SpanInvariant ==
    NormalizerRan =>
        \A n \in 1..Len(tokens) :
            /\ 0 <= TokStart(tokens[n])
            /\ TokStart(tokens[n]) <= TokEnd(tokens[n])
            /\ TokEnd(tokens[n]) <= Len(full_text)
            /\ tokens[n].text = SubSeq(full_text, TokStart(tokens[n]) + 1, TokEnd(tokens[n]))

\* C5: the normalizers emit no token with an empty text, emit nothing for a
\* raw token without text segments, and keep the order of the page's tokens.
C5_NoEmptyTokenOrderKept ==
    NormalizerRan =>
        /\ \A n \in 1..Len(tokens) : tokens[n].text # <<>>
        /\ \A n \in 1..Len(tokens) :
               Get(page_tokens[TokId(tokens[n]) + 1], "textSegments", <<>>) # <<>>
        /\ \A n \in 1..(Len(tokens) - 1) : TokId(tokens[n]) < TokId(tokens[n + 1])

-----------------------------------------------------------------------------
(* Candidate aggregation.                                                  *)

DeduplicateRan == call = "SmartFieldExtractor._deduplicate_values"

AggregateRan == call = "SmartFieldExtractor._extract_field_by_patterns"

\* The places of found_values that hold the value text v.
PlacesOf(v) == {n \in 1..Len(found_values) : found_values[n].value = v}

\* The place where the value text v arrived first.
FirstPlace(v) == CHOOSE n \in PlacesOf(v) : \A m \in PlacesOf(v) : n <= m

\* The highest confidence any candidate of the value text v arrived with.
HighestOf(v) ==
    CHOOSE c \in {found_values[n].confidence : n \in PlacesOf(v)} :
        \A n \in PlacesOf(v) : found_values[n].confidence <= c

\* The value texts that arrived several times with differing confidences.
ContestedValues ==
    {v \in ValuesOf(found_values) :
        \E n, m \in PlacesOf(v) : found_values[n].confidence # found_values[m].confidence}

\* The number of entries of the list q that hold the value text v.
CountIn(q, v) == Cardinality({n \in 1..Len(q) : q[n].value = v})

\* C7: after de-duplication every value text of the input occurs exactly
\* once in the output, the entry kept for it is the one that arrived first,
\* and the kept entries stand in their order of arrival.
C7_DedupKeepsFirstOccurrence ==
    DeduplicateRan =>
        /\ \A v \in ValuesOf(found_values) : CountIn(unique_values, v) = 1
        /\ \A n \in 1..Len(unique_values) :
               /\ unique_values[n].value \in ValuesOf(found_values)
               /\ unique_values[n] = found_values[FirstPlace(unique_values[n].value)]
        /\ \A n \in 1..(Len(unique_values) - 1) :
               FirstPlace(unique_values[n].value) < FirstPlace(unique_values[n + 1].value)

\* De-duplication has run on a list where a value text comes back later
\* with another confidence, between candidates of another value text.
C7_Witness ==
    /\ DeduplicateRan
    /\ Len(unique_values) >= 2
    /\ Len(unique_values) < Len(found_values)
    /\ \E v \in ContestedValues :
           found_values[FirstPlace(v)].confidence < HighestOf(v)

\* C8 as stated: a value text that arrived several times with differing
\* confidences has exactly one entry in the aggregated result, that entry
\* carries the highest of those confidences, and it is the best match when
\* no other value text arrived with a higher confidence.
C8_DuplicateKeepsHighest ==
    AggregateRan =>
        \A v \in ContestedValues :
            /\ CountIn(aggregated.all_candidates, v) = 1
            /\ \A n \in 1..Len(aggregated.all_candidates) :
                   aggregated.all_candidates[n].value = v =>
                       aggregated.all_candidates[n].confidence = HighestOf(v)
            /\ (\A w \in ValuesOf(found_values) : HighestOf(w) <= HighestOf(v)
                    /\ (w # v => HighestOf(w) < HighestOf(v)))
                   => aggregated.best.value = v

\* C8 as the code has it: a value text that arrived several times with
\* differing confidences has exactly one entry among the survivors and at
\* most one among the listed candidates, every such entry is the candidate
\* that arrived first, with its confidence, and it is the best match when
\* every other value text first arrived with a lower confidence.
C8_DuplicateKeepsFirstArrival ==
    AggregateRan =>
        \A v \in ContestedValues :
            /\ CountIn(unique_values, v) = 1
            /\ CountIn(aggregated.all_candidates, v) <= 1
            /\ \A n \in 1..Len(unique_values) :
                   unique_values[n].value = v =>
                       unique_values[n] = found_values[FirstPlace(v)]
            /\ \A n \in 1..Len(aggregated.all_candidates) :
                   aggregated.all_candidates[n].value = v =>
                       aggregated.all_candidates[n] = found_values[FirstPlace(v)]
            /\ (\A w \in ValuesOf(found_values) \ {v} :
                    found_values[FirstPlace(w)].confidence
                        < found_values[FirstPlace(v)].confidence)
                   => aggregated.best = found_values[FirstPlace(v)]

\* The aggregation has run on a list where the less confident candidate of
\* a value text arrived before the more confident one, and the value is
\* the best match with the lower confidence.
C8_Witness ==
    /\ AggregateRan
    /\ \E v \in ContestedValues :
           /\ found_values[FirstPlace(v)].confidence < HighestOf(v)
           /\ aggregated.best.value = v
           /\ aggregated.best.confidence < HighestOf(v)
           /\ Len(unique_values) >= 2

\* The confidences of the list q never rise.
Descending(q) == \A n \in 1..(Len(q) - 1) : q[n].confidence >= q[n + 1].confidence

\* C9 as stated: the survivors are listed by descending confidence, the top
\* entry is the best match, the alternates kept besides it are the next
\* five survivors (all of them when fewer), and a field without survivors
\* is absent from the result.
C9_NextFiveAlternates ==
    AggregateRan =>
        /\ (found_values = <<>>) => (aggregated = EmptyDict /\ DOMAIN extracted = {})
        /\ (found_values # <<>>) =>
               /\ DOMAIN extracted = {"field"}
               /\ Descending(aggregated.all_candidates)
               /\ aggregated.best = aggregated.all_candidates[1]
               /\ Len(aggregated.all_candidates) - 1
                      = Min(5, Cardinality(ValuesOf(found_values)) - 1)

\* C9 as the code has it: the listed candidates are the first five survivors
\* by descending confidence (all of them when fewer), the best match is the
\* first of them, so at most four alternates stand besides it; no survivor
\* left out is more confident than a listed one, and a field without
\* survivors is absent from the result.
C9_TopFiveWithBest ==
    AggregateRan =>
        /\ (found_values = <<>>) => (aggregated = EmptyDict /\ DOMAIN extracted = {})
        /\ (found_values # <<>>) =>
               /\ DOMAIN extracted = {"field"}
               /\ extracted["field"] = aggregated
               /\ Descending(aggregated.all_candidates)
               /\ aggregated.best = aggregated.all_candidates[1]
               /\ \A v \in ValuesOf(found_values) :
                      found_values[FirstPlace(v)].confidence <= aggregated.best.confidence
               /\ Len(aggregated.all_candidates)
                      = Min(5, Cardinality(ValuesOf(found_values)))
               /\ aggregated.detected = Cardinality(ValuesOf(found_values))
               /\ \A n \in 1..Len(aggregated.all_candidates) :
                      /\ aggregated.all_candidates[n]
                             = found_values[FirstPlace(aggregated.all_candidates[n].value)]
                      /\ \A v \in ValuesOf(found_values) :
                             CountIn(aggregated.all_candidates, v) = 0 =>
                                 found_values[FirstPlace(v)].confidence
                                     <= aggregated.all_candidates[n].confidence

\* The aggregation has run on six value texts of two confidence levels, the
\* less confident arriving first: five are listed, one is left out.
C9_Witness ==
    /\ AggregateRan
    /\ Cardinality(ValuesOf(found_values)) = 6
    /\ Len(aggregated.all_candidates) = 5
    /\ found_values[1].confidence < aggregated.best.confidence
    /\ aggregated.all_candidates[5].confidence < aggregated.best.confidence

\* The value texts and confidences of the entries of q.
EntriesOf(q) == {q[n] : n \in 1..Len(q)}

\* C10: aggregating the aggregated output again gives the same best match
\* and the same set of alternates, from the listed candidates as from the
\* whole list of survivors.
C10_AggregationIdempotent ==
    (AggregateRan /\ found_values # <<>>) =>
        /\ SortedSurvivors(unique_values) = unique_values
        /\ FieldResult(SortedSurvivors(unique_values), "field").best = aggregated.best
        /\ EntriesOf(Tail(FieldResult(SortedSurvivors(unique_values), "field").all_candidates))
               = EntriesOf(Tail(aggregated.all_candidates))
        /\ FieldResult(SortedSurvivors(aggregated.all_candidates), "field").best
               = aggregated.best
        /\ EntriesOf(Tail(FieldResult(SortedSurvivors(aggregated.all_candidates), "field").all_candidates))
               = EntriesOf(Tail(aggregated.all_candidates))

\* The aggregation has run on a list with a repeated value text and has
\* left several survivors of one confidence, the best match among them.
C10_Witness ==
    /\ AggregateRan
    /\ Len(unique_values) < Len(found_values)
    /\ Len(unique_values) >= 3
    /\ unique_values[1].confidence = unique_values[2].confidence
    /\ unique_values[2].confidence > unique_values[Len(unique_values)].confidence

-----------------------------------------------------------------------------
(* Candidate confidences.                                                  *)

ConfidenceRan == call = "SmartFieldExtractor._calculate_pattern_confidence"

ContextRan == call = "SmartFieldExtractor._find_context_based_values"

ExtractFieldRan == regime = "smart" /\ call = "SmartFieldExtractor._extract_field_by_patterns"

\* The confidence the rule of the pattern strategy gives before clamping: 0.9,
\* plus 0.05 for ten characters or more, minus 0.2 for two or fewer, plus
\* 0.05 for a digit-count quantifier, plus 0.03 for a character class.
RuleConfidence(length, pattern) ==
    900 + (IF length >= 10 THEN 50 ELSE 0) - (IF length <= 2 THEN 200 ELSE 0)
        + (IF Contains(pattern, <<"\\", "d", "{">>) THEN 50 ELSE 0)
        + (IF Contains(pattern, <<"[">>) THEN 30 ELSE 0)

\* C6: every candidate has a confidence in [0, 1]; a pattern candidate's
\* confidence is the rule's value clamped to [0.1, 1.0]; a context
\* candidate's confidence is at most that of the token it was taken from.
C6_ConfidenceBounds ==
    /\ (regime = "smart") =>
           \A n \in 1..Len(found_values) :
               /\ 0 <= found_values[n].confidence /\ found_values[n].confidence <= 1000
               /\ found_values[n].method = "pattern" =>
                      (100 <= found_values[n].confidence)
               /\ found_values[n].method = "context" =>
                      \E m \in 1..Len(tokens) :
                          /\ tokens[m].coordinates = found_values[n].coordinates
                          /\ Strip(tokens[m].text) = found_values[n].value
                          /\ found_values[n].confidence <= tokens[m].confidence
    /\ ConfidenceRan =>
           \E m \in 1..Len(tokens) :
               /\ Strip(tokens[m].text) = found_values[1].value
               /\ found_values[1].confidence
                      = Min(1000, Max(100, RuleConfidence(Len(tokens[m].text),
                                                          found_values[1].pattern)))

\* A field has been extracted from a document where a pattern candidate's
\* rule value exceeds 1.0 and a context candidate was taken from a token of
\* positive confidence.
C6_Witness ==
    /\ ExtractFieldRan
    /\ \E n, m \in 1..Len(found_values) :
          /\ found_values[n].method = "pattern"
          /\ RuleConfidence(Len(found_values[n].value), found_values[n].pattern) > 1000
          /\ found_values[n].confidence = 1000
          /\ found_values[m].method = "context"
          /\ found_values[m].confidence > 0

-----------------------------------------------------------------------------
(* Repeated calls on one instance.                                         *)

\* The field map of a served call: extracted_fields of the extractor's
\* result, data of the parser's.
FieldMapOf(served) ==
    IF "data" \in DOMAIN served.output THEN served.output.data
    ELSE Get(served.output, "extracted_fields", EmptyDict)

\* Calls m and n > m were given the same argument, with a call for another
\* argument between them.
RepeatedAfterOther(m, n) ==
    /\ m < n /\ n <= Len(history)
    /\ history[m].input = history[n].input
    /\ \E k \in (m + 1)..(n - 1) : history[k].input # history[m].input

\* C11: with the field definitions fixed, every call an instance serves for
\* the same document (or text and fields) returns the same field map,
\* whatever the instance processed before.
C11_FieldMapIndependentOfHistory ==
    \A m, n \in 1..Len(history) :
        history[m].input = history[n].input => FieldMapOf(history[m]) = FieldMapOf(history[n])

\* The extractor served a document with fields twice, another document with
\* other dimensions in between.
C11_Witness ==
    /\ regime = "extractor" /\ Len(history) = MaxCalls
    /\ RepeatedAfterOther(1, MaxCalls)
    /\ FieldMapOf(history[1]) # EmptyDict
    /\ "structured_fields" \in DOMAIN FieldMapOf(history[1])
    /\ FieldMapOf(history[1]).structured_fields # EmptyDict
    /\ FieldMapOf(history[2]) # FieldMapOf(history[1])

-----------------------------------------------------------------------------
(* Concurrent calls on one extractor.                                      *)

\* The call of thread t returned a result with document_info.
Reported(t) ==
    /\ regime = "threads" /\ threads[t].pc = "done"
    /\ "document_info" \in DOMAIN threads[t].result

\* C12: under every interleaving of two concurrent process_document_json
\* calls on one extractor, the page_dimensions of each result are the width
\* and height of that call's own document.
C12_OwnPageDimensions ==
    \A t \in DOMAIN threads :
        Reported(t) =>
            /\ threads[t].result.document_info.page_dimensions.width
                   = PageDimension(PageOf(threads[t]), "width", 1)
            /\ threads[t].result.document_info.page_dimensions.height
                   = PageDimension(PageOf(threads[t]), "height", 1)

-----------------------------------------------------------------------------
(* A faulty field among the fields of a flat parse.                        *)

PatternsParserRan == regime = "patterns" /\ call # "none"

\* The field has no pattern that compiles.
Faulty(field) == CompilableOf(field.patterns) = <<>>

\* The fields of the run without the faulty one.
RECURSIVE WithoutFaulty(_)
WithoutFaulty(fs) ==
    IF fs = <<>> THEN <<>>
    ELSE (IF Faulty(Head(fs)) THEN <<>> ELSE <<Head(fs)>>) \o WithoutFaulty(Tail(fs))

\* The result of the parser that ran, for the fields fs.
ParsedWith(fs) ==
    IF call = "SequentialKeyParser.parse" THEN SeqParse(text, fs, DefaultMaxValueLines)
    ELSE KVParse(text, fs)

\* C13: with a field whose pattern does not compile, or which has no
\* pattern, parse does not raise; the field has no value and is missing if
\* required; the other fields get the values they get without that field.
C13_FaultyFieldIsolated ==
    PatternsParserRan =>
        /\ raised = "none"
        /\ \A n \in 1..Len(fields) :
              Faulty(fields[n]) =>
                  /\ fields[n].key \notin DOMAIN result.data
                  /\ fields[n].required =>
                         \E m \in 1..Len(result.missing_fields) :
                             result.missing_fields[m] = fields[n].key
        /\ result.data = ParsedWith(WithoutFaulty(fields)).data

-----------------------------------------------------------------------------
(* The strategies of _extract_fields.                                      *)

ExtractFieldsRan == regime = "strategies" /\ call = "FormFieldExtractor._extract_fields"

\* The keys the pattern strategy and the structured strategy report.
LaterStrategies ==
    Update(ExtractStructuredFormFields(Get(config, "form_fields", EmptyDict), tokens,
                                       full_text),
           ExtractPatternBasedFields(tokens, full_text))

\* C14: _extract_fields does not raise; a strategy that fails (a region
\* lacking a bound, a token without geometry) contributes nothing, and the
\* other strategies' output is in the result.
C14_StrategyFailureIsolated ==
    ExtractFieldsRan =>
        /\ raised = "none"
        /\ \A k \in DOMAIN LaterStrategies :
              k \in DOMAIN extracted /\ extracted[k] = LaterStrategies[k]

-----------------------------------------------------------------------------
(* The batch loops.                                                        *)

InLoop == regime = "batch" /\ batch.pc \in {"loop", "done"}

\* The number of the first n documents whose processing fails.
RECURSIVE FailuresAmong(_, _)
FailuresAmong(image_paths, n) ==
    IF n = 0 THEN 0
    ELSE FailuresAmong(image_paths, n - 1) + (IF image_paths[n] = "ok" THEN 0 ELSE 1)

\* After each document: the documents up to the position were processed
\* once and the others not yet, the failures were counted in ng and the
\* rest in ok, so that ok + ng is the number processed so far.
CountsAgree ==
    InLoop =>
        /\ \A n \in 1..Len(batch.image_paths) :
              batch.processed[n] = (IF n <= batch.i THEN 1 ELSE 0)
        /\ batch.ng = FailuresAmong(batch.image_paths, batch.i)
        /\ batch.ok + batch.ng = batch.i

Finished ==
    /\ regime = "batch" /\ batch.pc = "done"
    /\ batch.i = Len(batch.image_paths)
    /\ batch.ok + batch.ng = Len(batch.image_paths)

-----------------------------------------------------------------------------
(* Definitions supplied by the caller.                                     *)

ParserBuiltRan == regime = "construct" /\ call = "DataParser.parse"

ExtractorBuiltRan ==
    regime = "construct" /\ call = "FormFieldExtractor.process_document_json"

\* C16: the definitions a caller supplies, an empty list or dict included,
\* are the ones searched: the parser's fields and the run's result are those
\* of the supplied list, the extractor's definitions and fields those of the
\* supplied dict, and no default field appears.
C16_SuppliedDefinitionsReplaceDefaults ==
    /\ ParserBuiltRan /\ ~IsNoneFields(fields) =>
          /\ instance.fields = fields
          /\ result = DataParse(instance.strategy, text, fields)
    /\ ExtractorBuiltRan /\ ~IsNone(config) =>
          /\ instance.field_definitions = config
          /\ extracted = ExtractFields(config, tokens, full_text)

-----------------------------------------------------------------------------
(* The lines SequentialKeyParser collects for a field.                     *)

SequentialRan == regime = "flat" /\ call = "SequentialKeyParser.parse" /\ ~TextIsEmpty

\* The first line (0-based) the only pattern of field n finds, Len(lines)
\* if there is none.
RECURSIVE KeyLineFrom(_, _, _)
KeyLineFrom(lines, pattern, i) ==
    IF i >= Len(lines) THEN Len(lines)
    ELSE IF ReSearch(pattern, lines[i + 1], TRUE).ok THEN i
    ELSE KeyLineFrom(lines, pattern, i + 1)

\* The text of the key line behind the key.
RemainderOf(line, pattern) ==
    Strip(Slice(line, MatchEnd(ReSearch(pattern, line, TRUE)), Len(line)))

\* A pattern of a field other than field n is found in the line.
OtherFieldKey(fs, n, line) ==
    \E m \in 1..Len(fs) : m # n /\ \E p \in 1..Len(fs[m].patterns) :
        ReSearch(fs[m].patterns[p], line, TRUE).ok

\* The first line after line i that is blank or holds the key of another
\* field, Len(lines) if there is none.
RECURSIVE StopLineFrom(_, _, _, _)
StopLineFrom(lines, fs, n, j) ==
    IF j >= Len(lines) THEN Len(lines)
    ELSE IF Strip(lines[j + 1]) = <<>> \/ OtherFieldKey(fs, n, Strip(lines[j + 1])) THEN j
    ELSE StopLineFrom(lines, fs, n, j + 1)

\* The lines i+1 .. stop-1, stripped, in order.
StrippedBetween(lines, i, stop) == [k \in 1..(stop - i - 1) |-> Strip(lines[i + k + 1])]

\* The value the key line i gives field n when the collection ends only at
\* a blank line or at the key of another field.
ValueUpToOtherKey(lines, fs, n, i) ==
    IF ~fs[n].multiline /\ RemainderOf(lines[i + 1], fs[n].patterns[1]) # <<>>
    THEN RemainderOf(lines[i + 1], fs[n].patterns[1])
    ELSE Strip(JoinSpace(InitialValueLines(RemainderOf(lines[i + 1], fs[n].patterns[1]))
                         \o StrippedBetween(lines, i, StopLineFrom(lines, fs, n, i + 1))))

\* Field n has one pattern and a key of its own, and its pattern finds a
\* line.
KeyedOnce(fs, n, lines) ==
    /\ Len(fs[n].patterns) = 1
    /\ \A m \in 1..Len(fs) : m # n => fs[m].key # fs[n].key
    /\ KeyLineFrom(lines, fs[n].patterns[1], 0) < Len(lines)

\* C17: when the rest of the key line is empty or the field is multiline,
\* the following lines are appended in order up to the first blank line or
\* the first line with a key of another field (a line with the field's own
\* key is appended), and the fragments are joined with single spaces.
C17_CollectsUpToOtherFieldKey ==
    SequentialRan =>
        \A n \in 1..Len(fields) :
            KeyedOnce(fields, n, SplitLines(text))
            /\ ValueUpToOtherKey(SplitLines(text), fields, n,
                                 KeyLineFrom(SplitLines(text), fields[n].patterns[1], 0)) # <<>>
            => /\ fields[n].key \in DOMAIN result.data
               /\ result.data[fields[n].key]
                      = ValueUpToOtherKey(SplitLines(text), fields, n,
                            KeyLineFrom(SplitLines(text), fields[n].patterns[1], 0))

-----------------------------------------------------------------------------
(* The pair KeyValuePairParser takes for a field.                          *)

KeyValueRan == regime = "flat" /\ call = "KeyValuePairParser.parse" /\ ~TextIsEmpty

\* The pairs (1-based, in text order) whose label a pattern of the field
\* finds.
LabelledPairs(pairs, field) ==
    {i \in 1..Len(pairs) :
        \E p \in 1..Len(field.patterns) :
            ReSearch(field.patterns[p], pairs[i].key_text, TRUE).ok}

LastOf(S) == CHOOSE i \in S : \A j \in S : j <= i

OwnKey(fs, n) == \A m \in 1..Len(fs) : m # n => fs[m].key # fs[n].key

\* C18: KeyValuePairParser.parse gives a field the value of the last
\* label:value pair, in text order, whose label one of its patterns finds;
\* a field whose patterns find no label is absent from data.
C18_LastPairWins ==
    KeyValueRan =>
        \A n \in 1..Len(fields) :
            OwnKey(fields, n) =>
                IF LabelledPairs(KVMatches(text), fields[n]) = {}
                THEN fields[n].key \notin DOMAIN result.data
                ELSE /\ fields[n].key \in DOMAIN result.data
                     /\ result.data[fields[n].key]
                            = KVMatches(text)[LastOf(LabelledPairs(KVMatches(text),
                                                                   fields[n]))].value

\* A field took the value of the later of two pairs with its label and
\* different values.
C18_Witness ==
    /\ KeyValueRan
    /\ \E n \in 1..Len(fields) :
          /\ OwnKey(fields, n)
          /\ \E i, j \in LabelledPairs(KVMatches(text), fields[n]) :
                /\ i < j
                /\ KVMatches(text)[i].value # KVMatches(text)[j].value
                /\ result.data[fields[n].key] = KVMatches(text)[j].value

-----------------------------------------------------------------------------
(* The window searched behind a keyword token.                             *)

ForwardSearchRan ==
    /\ regime = "context"
    /\ call = "FormFieldExtractor._extract_field_value_from_context"
    /\ ~history[1].reverse_search

\* The tokens (0-based) among the five behind token i whose text the
\* validator of the field accepts.
ValidAmongNextFive(toks, i, field_type) ==
    {j \in (i + 1)..Min(Len(toks) - 1, i + 5) :
        /\ Strip(toks[j + 1].text) # <<>>
        /\ FormIsValidFieldValue(Strip(toks[j + 1].text), field_type, <<>>)}

FirstOf(S) == CHOOSE j \in S : \A k \in S : j <= k

\* C19: the forward search behind keyword token i returns the first token
\* among tokens i+1 .. i+5 (fewer at the end of the list) whose text passes
\* the validator, and returns nothing only if none of them passes.
C19_FirstValidAmongNextFive ==
    ForwardSearchRan =>
        IF ValidAmongNextFive(tokens, history[1].keyword_idx, "phone") = {}
        THEN aggregated = EmptyDict
        ELSE aggregated
                = FieldValueOf(tokens[FirstOf(ValidAmongNextFive(tokens,
                                   history[1].keyword_idx, "phone")) + 1], "phone")

-----------------------------------------------------------------------------
(* The confidence of the candidates of _extract_single_field.              *)

SingleFieldRan ==
    regime = "form" /\ call = "FormFieldExtractor._extract_single_field"

\* The tokens an entry can have been taken from: those with its text and
\* its box.
TokensOfEntry(toks, entry) ==
    {n \in 1..Len(toks) :
        /\ Strip(toks[n].text) = entry.value
        /\ Get(toks[n], "coordinates", EmptyDict) = entry.coordinates}

\* confidence = 0.8 * the token's confidence, in thousandths.
PenalisedConfidence(toks, entry) ==
    \E n \in TokensOfEntry(toks, entry) : 10 * entry.confidence = 8 * toks[n].confidence

UnchangedConfidence(toks, entry) ==
    \E n \in TokensOfEntry(toks, entry) : entry.confidence = toks[n].confidence

\* C20: in _extract_single_field a candidate of a context keyword, found by
\* reverse search, carries 0.8 times the confidence of its token, and a
\* candidate of a direct keyword match carries the confidence of its token.
C20_ContextCandidatesPenalised ==
    SingleFieldRan =>
        \A n \in 1..Len(found_values) :
            IF "context_keyword_matched" \in DOMAIN found_values[n]
            THEN PenalisedConfidence(tokens, found_values[n])
            ELSE UnchangedConfidence(tokens, found_values[n])

-----------------------------------------------------------------------------
(* The tokens that give a match its box.                                   *)

SpanRan ==
    regime = "span" /\ call = "SmartFieldExtractor._find_coordinates_for_text_span"

\* Token and [start, end) share a character.
Overlaps(token, start, end) == token.start_pos < end /\ start < token.end_pos

\* C21: the box of a match [start, end) is the union of the boxes of
\* exactly the tokens with geometry whose span overlaps [start, end); a
\* token that only abuts the match gives nothing, and the box is empty
\* when no overlapping token has geometry.
C21_BoxOfOverlappingTokens ==
    SpanRan =>
        aggregated
            = MergeCoords(SelectSeq(tokens,
                  LAMBDA t : Overlaps(t, history[1].start, history[1].end)
                             /\ t.coordinates # EmptyDict))

-----------------------------------------------------------------------------
(* The tokens of a coordinate region.                                      *)

RegionsRan ==
    regime = "regions" /\ call = "FormFieldExtractor._extract_coordinate_based_fields"

\* The tokens (1-based) with geometry whose center lies in the rectangle.
TokensInside(toks, area) ==
    {n \in 1..Len(toks) :
        /\ toks[n].coordinates # EmptyDict
        /\ area.x_min <= toks[n].coordinates.center_x
        /\ toks[n].coordinates.center_x <= area.x_max
        /\ area.y_min <= toks[n].coordinates.center_y
        /\ toks[n].coordinates.center_y <= area.y_max}

\* The texts of the tokens of S from token n on, in token order.
RECURSIVE TextsInOrder(_, _, _)
TextsInOrder(toks, S, n) ==
    IF n > Len(toks) THEN <<>>
    ELSE (IF n \in S THEN toks[n].text ELSE <<>>) \o TextsInOrder(toks, S, n + 1)

-----------------------------------------------------------------------------
(* What the phone validator of the form extractor accepts.                 *)

FormValidatorRan ==
    regime = "validator" /\ call = "FormFieldExtractor._is_valid_field_value"

\* s holds k characters in a row, each a digit, a hyphen or a parenthesis.
HasPhoneRun(s, k) ==
    \E i \in 1..(Len(s) - k + 1) :
        \A j \in i..(i + k - 1) : s[j] \in Digits \cup {"-", "(", ")"}

\* C23: the phone validator of FormFieldExtractor accepts a string exactly
\* when it holds a run of at least 8 digits, hyphens or parentheses.
C23_PhoneNeedsRunOfEight ==
    FormValidatorRan => (aggregated.valid <=> HasPhoneRun(text, 8))

-----------------------------------------------------------------------------
(* The number of lines in a value of SequentialKeyParser.                  *)

LimitedParseRan == regime = "limit" /\ call = "SequentialKeyParser.parse"

\* The lines a value was joined from: the lines of the texts have no inner
\* white space, so each joining space separates two of them.
LinesJoined(value) == Cardinality({n \in 1..Len(value) : value[n] = " "}) + 1

\* C24: a value of SequentialKeyParser is assembled from at most
\* max_value_lines lines, the non-empty remainder of the key line counted
\* as one.
C24_AtMostMaxValueLines ==
    LimitedParseRan =>
        \A k \in DOMAIN result.data :
            LinesJoined(result.data[k]) <= instance.max_value_lines

-----------------------------------------------------------------------------
(* The best value and the alternates of the final structured output.       *)

FinalRan ==
    regime = "final" /\ call = "FormFieldExtractor.generate_final_structured_json"

\* The candidates of a field of the result of process_document_json.
CandidatesOf(f) == extracted.extracted_fields.structured_fields[f].values

NonIncreasing(entries) ==
    \A n \in 1..(Len(entries) - 1) : entries[n].confidence >= entries[n + 1].confidence

\* C25: in the final structured output the best value of a field is a
\* candidate of maximal confidence among the field's candidates, and the
\* alternates of the field are in order of non-increasing confidence.
C25_BestIsMaximalAlternatesSorted ==
    FinalRan =>
        \A f \in DOMAIN aggregated.fields :
            /\ \E n \in 1..Len(CandidatesOf(f)) :
                  /\ CandidatesOf(f)[n].value = aggregated.fields[f].value
                  /\ Round3(CandidatesOf(f)[n].confidence) = aggregated.fields[f].confidence
                  /\ \A m \in 1..Len(CandidatesOf(f)) :
                        CandidatesOf(f)[m].confidence <= CandidatesOf(f)[n].confidence
            /\ "alternates" \in DOMAIN aggregated.fields[f]
                  => NonIncreasing(aggregated.fields[f].alternates)

-----------------------------------------------------------------------------
(* The value texts of the candidates of a field.                           *)

ValueTexts(values) == {values[n].value : n \in 1..Len(values)}

\* C26: the candidates _extract_single_field collects for a field never
\* hold two entries with the same value text, whether they come from
\* keyword matches, from context keyword matches or from one of each, so
\* found_count is the number of distinct value texts.
C26_NoTwoCandidatesWithOneValue ==
    SingleFieldRan =>
        /\ \A n, m \in 1..Len(found_values) :
              n # m => found_values[n].value # found_values[m].value
        /\ aggregated # EmptyDict
              => aggregated.found_count = Cardinality(ValueTexts(found_values))

-----------------------------------------------------------------------------
(* The order in which _extract_field_value tries patterns and lines.       *)

\* The value line i (0-based) yields for pattern p of the field: empty when
\* the pattern does not find the line, or when nothing follows the key and
\* no line after it can be collected.
ValueAtLine(lines, field, all_fields, max_value_lines, p, i) ==
    IF ~ReSearch(field.patterns[p], lines[i + 1], TRUE).ok THEN <<>>
    ELSE IF field.multiline \/ RemainderOf(lines[i + 1], field.patterns[p]) = <<>>
    THEN Strip(JoinSpace(CollectLines(lines, all_fields, i + 1,
                             Min(i + max_value_lines + 1, Len(lines)),
                             InitialValueLines(RemainderOf(lines[i + 1], field.patterns[p])),
                             0).lines))
    ELSE RemainderOf(lines[i + 1], field.patterns[p])

\* The pairs of a pattern and a line that yield a value.
YieldingPairs(lines, field, all_fields, max_value_lines) ==
    {pi \in (1..Len(field.patterns)) \X (0..(Len(lines) - 1)) :
        ValueAtLine(lines, field, all_fields, max_value_lines, pi[1], pi[2]) # <<>>}

\* The first pair of S, patterns before lines.
FirstPair(S) ==
    CHOOSE pi \in S : \A qj \in S : pi[1] < qj[1] \/ (pi[1] = qj[1] /\ pi[2] <= qj[2])

\* C27: the value of a field is taken from the topmost line of the first
\* pattern, in pattern order, that yields a non-empty value, even when a
\* later pattern finds an earlier line; a key line that yields an empty
\* value does not end the search, and the field is not found only when no
\* pattern yields a value on any line.
C27_PatternOrderBeforeLineOrder ==
    SequentialRan =>
        \A n \in 1..Len(fields) :
            OwnKey(fields, n) =>
                IF YieldingPairs(SplitLines(text), fields[n], fields, DefaultMaxValueLines) = {}
                THEN fields[n].key \notin DOMAIN result.data
                ELSE /\ fields[n].key \in DOMAIN result.data
                     /\ result.data[fields[n].key]
                            = ValueAtLine(SplitLines(text), fields[n], fields,
                                  DefaultMaxValueLines,
                                  FirstPair(YieldingPairs(SplitLines(text), fields[n], fields,
                                                          DefaultMaxValueLines))[1],
                                  FirstPair(YieldingPairs(SplitLines(text), fields[n], fields,
                                                          DefaultMaxValueLines))[2])

\* The value came from a line below a line that a later pattern of the
\* field finds and that yields another value.
C27_Witness ==
    /\ SequentialRan
    /\ \E n \in 1..Len(fields) :
          /\ OwnKey(fields, n)
          /\ \E pi, qj \in YieldingPairs(SplitLines(text), fields[n], fields,
                                         DefaultMaxValueLines) :
                /\ pi[1] < qj[1] /\ qj[2] < pi[2]
                /\ pi = FirstPair(YieldingPairs(SplitLines(text), fields[n], fields,
                                                DefaultMaxValueLines))
                /\ ValueAtLine(SplitLines(text), fields[n], fields, DefaultMaxValueLines,
                               qj[1], qj[2])
                       # result.data[fields[n].key]

-----------------------------------------------------------------------------
(* The values of ParseResult.data.                                         *)

ParseRan ==
    regime = "flat" /\ call \in {"SequentialKeyParser.parse", "KeyValuePairParser.parse"}

\* C28: every entry of ParseResult.data has a non-empty value, whichever
\* parser made it, so no required field counts as found on the strength of
\* an empty value.
C28_NoEmptyValueInData ==
    ParseRan => \A k \in DOMAIN result.data : result.data[k] # <<>>

-----------------------------------------------------------------------------
(* The count of candidates and the alternates of the final output.         *)

\* C29: in the final structured output a field with a candidate count
\* n > 1 has exactly n - 1 alternates, so the best value and the alternates
\* account for every candidate counted; a field with one candidate has no
\* alternates.
C29_AlternatesAreTheOtherCandidates ==
    FinalRan =>
        \A f \in DOMAIN aggregated.fields :
            IF aggregated.fields[f].candidate_count > 1
            THEN /\ "alternates" \in DOMAIN aggregated.fields[f]
                 /\ Len(aggregated.fields[f].alternates)
                        = aggregated.fields[f].candidate_count - 1
            ELSE /\ aggregated.fields[f].candidate_count = 1
                 /\ "alternates" \notin DOMAIN aggregated.fields[f]

-----------------------------------------------------------------------------
(* The box of the vertices supplied.                                       *)

BoxMade == regime = "boxes" /\ call # "none"

CenterInside(box) ==
    /\ box.x_min <= box.center_x /\ box.center_x <= box.x_max
    /\ box.y_min <= box.center_y /\ box.center_y <= box.y_max

\* The vertex lies in the box on both axes; a coordinate left out is 0.
VertexInside(box, v) ==
    /\ box.x_min <= Get(v, "x", 0) /\ Get(v, "x", 0) <= box.x_max
    /\ box.y_min <= Get(v, "y", 0) /\ Get(v, "y", 0) <= box.y_max

\* C30: a box made by a normalizer or by the union of the boxes of a match
\* has its center between its bounds on both axes and is taken over all
\* vertices supplied, a vertex that omits a coordinate included on both
\* axes; there is no box when no vertex is supplied.
C30_BoxOverAllVertices ==
    BoxMade =>
        /\ history[1].vertices = <<>> => aggregated = EmptyDict
        /\ aggregated # EmptyDict =>
              /\ CenterInside(aggregated)
              /\ \A n \in 1..Len(history[1].vertices) :
                    VertexInside(aggregated, history[1].vertices[n])

=============================================================================
